---- MODULE Spec2Model ----
(***************************************************************************)
(* Model of the smart-ticket-engine web server (src/server.py).            *)
(*                                                                         *)
(* Text is modelled as sequences of one-character strings, so that the     *)
(* string operations of the code (strip, lower, slicing, replace, int(),   *)
(* str()) are computed as the code computes them.  A CSV file is a record  *)
(* [exists, rows] whose rows are sequences of fields; a field is text.     *)
(***************************************************************************)
EXTENDS Integers, Sequences, FiniteSets, TLC

(***************************************************************************)
(* Bounds of the model.                                                    *)
(***************************************************************************)
MaxTickets == 2
MaxAudit == 2
MaxTime == 60

(***************************************************************************)
(* Characters and the text operations of Python's str.                     *)
(***************************************************************************)
UpperSeq == <<"A","B","C","D","E","F","G","H","I","J","K","L","M",
              "N","O","P","Q","R","S","T","U","V","W","X","Y","Z">>
LowerSeq == <<"a","b","c","d","e","f","g","h","i","j","k","l","m",
              "n","o","p","q","r","s","t","u","v","w","x","y","z">>
DigitSeq == <<"0","1","2","3","4","5","6","7","8","9">>

UpperLetters == {UpperSeq[i] : i \in 1..26}
LowerLetters == {LowerSeq[i] : i \in 1..26}
Letters == UpperLetters \cup LowerLetters
DigitChars == {DigitSeq[i] : i \in 1..10}
AlnumChars == Letters \cup DigitChars
Whitespace == {" ", "\t", "\n", "\r"}
Vowels == {"a","e","i","o","u"}

SetMin(S) == CHOOSE x \in S : \A y \in S : x <= y
SetMax(S) == CHOOSE x \in S : \A y \in S : x >= y
Min2(a, b) == IF a <= b THEN a ELSE b

\* str.lower() on one character and on a text
LowerChar(c) ==
    IF c \in UpperLetters
    THEN LowerSeq[CHOOSE i \in 1..26 : UpperSeq[i] = c]
    ELSE c
Lower(s) == [i \in 1..Len(s) |-> LowerChar(s[i])]

\* str.strip(): leading and trailing characters of the set removed
StripChars(s, cs) ==
    LET keep == {i \in 1..Len(s) : s[i] \notin cs}
    IN IF keep = {} THEN <<>> ELSE SubSeq(s, SetMin(keep), SetMax(keep))
Strip(s) == StripChars(s, Whitespace)

\* s[:n]
Prefix(s, n) == SubSeq(s, 1, Min2(n, Len(s)))

\* sub in s
Contains(s, sub) ==
    \E i \in 0..(Len(s) - Len(sub)) : SubSeq(s, i + 1, i + Len(sub)) = sub

\* number of positions of s whose character satisfies membership in cs
CountIn(s, cs) == Cardinality({i \in 1..Len(s) : s[i] \in cs})

\* str.replace(a, b) for a single character a and a text b
RECURSIVE ReplaceChar(_, _, _)
ReplaceChar(s, a, b) ==
    IF s = <<>> THEN <<>>
    ELSE (IF Head(s) = a THEN b ELSE <<Head(s)>>) \o ReplaceChar(Tail(s), a, b)

\* str.split(): the maximal runs of non-whitespace characters
SplitWords(s) ==
    LET starts == {i \in 1..Len(s) :
                     s[i] \notin Whitespace /\ (i = 1 \/ s[i - 1] \in Whitespace)}
        ends == {i \in 1..Len(s) :
                   s[i] \notin Whitespace /\ (i = Len(s) \/ s[i + 1] \in Whitespace)}
        nth(S, k) == CHOOSE i \in S : Cardinality({j \in S : j <= i}) = k
    IN [k \in 1..Cardinality(starts) |-> SubSeq(s, nth(starts, k), nth(ends, k))]

\* the longest run of one repeated character, as the loops at
\* server.py:489-496 and 398-405 compute it (0 when no character repeats)
MaxRepeats(s) ==
    LET isRun(i, j) == i < j /\ \A k \in i..j : s[k] = s[i]
        lens == {j - i + 1 : <<i, j>> \in
                   {p \in (1..Len(s)) \X (1..Len(s)) : isRun(p[1], p[2])}}
    IN IF lens = {} THEN 0 ELSE SetMax(lens)

\* str(n) for n >= 0
RECURSIVE Str(_)
Str(n) ==
    IF n < 10 THEN <<DigitSeq[n + 1]>>
    ELSE Str(n \div 10) \o <<DigitSeq[(n % 10) + 1]>>

DigitVal(c) == (CHOOSE i \in 1..10 : DigitSeq[i] = c) - 1
RECURSIVE DigitsVal(_)
DigitsVal(s) ==
    IF s = <<>> THEN 0
    ELSE 10 * DigitsVal(SubSeq(s, 1, Len(s) - 1)) + DigitVal(s[Len(s)])
AllIn(s, cs) == \A i \in 1..Len(s) : s[i] \in cs

\* int(s): surrounding whitespace and one sign are accepted; anything else
\* raises ValueError
IsInt(s) ==
    LET t == Strip(s)
        u == IF t # <<>> /\ t[1] \in {"+", "-"} THEN Tail(t) ELSE t
    IN u # <<>> /\ AllIn(u, DigitChars)
ParseInt(s) ==
    LET t == Strip(s)
        u == IF t[1] \in {"+", "-"} THEN Tail(t) ELSE t
    IN IF t[1] = "-" THEN 0 - DigitsVal(u) ELSE DigitsVal(u)

\* html.escape(s) with quote=True
HtmlEscapeChar(c) ==
    CASE c = "&" -> <<"&","a","m","p",";">>
      [] c = "<" -> <<"&","l","t",";">>
      [] c = ">" -> <<"&","g","t",";">>
      [] c = "\"" -> <<"&","q","u","o","t",";">>
      [] c = "'" -> <<"&","#","x","2","7",";">>
      [] OTHER -> <<c>>
RECURSIVE HtmlEscape(_)
HtmlEscape(s) ==
    IF s = <<>> THEN <<>> ELSE HtmlEscapeChar(Head(s)) \o HtmlEscape(Tail(s))

(***************************************************************************)
(* The validators (pure functions of their input).                         *)
(***************************************************************************)
validate_name(name) ==
    LET n == Strip(name)
    IN IF name = <<>> \/ Len(n) = 0
         THEN [ok |-> FALSE, err |-> "Name is required"]
       ELSE IF Len(n) < 2
         THEN [ok |-> FALSE, err |-> "Name too short (minimum 2 characters)"]
       ELSE IF Len(n) > 100
         THEN [ok |-> FALSE, err |-> "Name too long (maximum 100 characters)"]
       ELSE IF ~ \E i \in 1..Len(n) : n[i] \in Letters
         THEN [ok |-> FALSE, err |-> "Name must contain at least one letter"]
       ELSE [ok |-> TRUE, err |-> ""]

\* r'^[a-zA-Z0-9._%+-]+@[a-zA-Z0-9.-]+\.[a-zA-Z]{2,}$'
EmailLocalChars == AlnumChars \cup {".", "_", "%", "+", "-"}
EmailDomainChars == AlnumChars \cup {".", "-"}
EmailPatternMatches(e) ==
    \E a \in 1..Len(e), d \in 1..Len(e) :
        /\ e[a] = "@" /\ e[d] = "." /\ a < d
        /\ a > 1 /\ AllIn(SubSeq(e, 1, a - 1), EmailLocalChars)
        /\ d > a + 1 /\ AllIn(SubSeq(e, a + 1, d - 1), EmailDomainChars)
        /\ Len(e) - d >= 2 /\ AllIn(SubSeq(e, d + 1, Len(e)), Letters)

suspicious_patterns ==
    << <<"t","e","s","t">>, <<"f","a","k","e">>, <<"d","u","m","m","y">>,
       <<"s","p","a","m">>, <<"t","e","m","p">>,
       <<"t","h","r","o","w","a","w","a","y">> >>

validate_email(email) ==
    LET e == Lower(Strip(email))
        at == CHOOSE a \in 1..Len(e) : e[a] = "@"
        username == SubSeq(e, 1, at - 1)
        domain == SubSeq(e, at + 1, Len(e))
        dots == {i \in 1..Len(domain) : domain[i] = "."}
        domain_name == IF dots = {} THEN domain
                       ELSE SubSeq(domain, 1, SetMin(dots) - 1)
    IN IF email = <<>> \/ Len(Strip(email)) = 0
         THEN [ok |-> FALSE, err |-> "Email is required"]
       ELSE IF ~ EmailPatternMatches(e)
         THEN [ok |-> FALSE, err |-> "Invalid email format (e.g., user@example.com)"]
       ELSE IF Len(e) > 100
         THEN [ok |-> FALSE, err |-> "Email too long (maximum 100 characters)"]
       ELSE IF Len(username) >= 5 /\ CountIn(username, Vowels) < 2
         THEN [ok |-> FALSE, err |-> "Email username appears invalid"]
       ELSE IF Len(username) >= 4 /\ MaxRepeats(username) >= 3
         THEN [ok |-> FALSE, err |-> "Email appears invalid (repeated characters)"]
       ELSE IF Len(domain_name) >= 4 /\ CountIn(domain_name, Vowels) = 0
         THEN [ok |-> FALSE, err |-> "Email domain appears invalid"]
       ELSE IF \E i \in 1..Len(suspicious_patterns) :
                  \/ Contains(username, suspicious_patterns[i])
                  \/ Contains(domain, suspicious_patterns[i])
         THEN [ok |-> FALSE, err |-> "Email appears to be a test/fake address"]
       ELSE [ok |-> TRUE, err |-> ""]

\* the hard-coded catalog used when no products file is loaded
VALID_PRODUCTS ==
  << <<"l","a","p","t","o","p">>,
     <<"d","e","s","k","t","o","p">>,
     <<"p","h","o","n","e">>,
     <<"t","a","b","l","e","t">>,
     <<"m","o","n","i","t","o","r">>,
     <<"k","e","y","b","o","a","r","d">>,
     <<"m","o","u","s","e">>,
     <<"h","e","a","d","p","h","o","n","e">>,
     <<"h","e","a","d","p","h","o","n","e","s">>,
     <<"g","a","m","i","n","g"," ","p","c">>,
     <<"s","m","a","r","t","w","a","t","c","h">>,
     <<"c","a","m","e","r","a">>,
     <<"p","r","i","n","t","e","r">>,
     <<"s","p","e","a","k","e","r">>,
     <<"s","p","e","a","k","e","r","s">>,
     <<"r","o","u","t","e","r">>,
     <<"w","e","b","c","a","m">>,
     <<"m","i","c","r","o","p","h","o","n","e">>,
     <<"c","h","a","r","g","e","r">>,
     <<"c","a","b","l","e">>,
     <<"h","a","r","d"," ","d","r","i","v","e">>,
     <<"s","s","d">>,
     <<"r","a","m">>,
     <<"g","r","a","p","h","i","c","s"," ","c","a","r","d">>,
     <<"m","o","t","h","e","r","b","o","a","r","d">> >>

\* one row of the dynamic-programming table, built left to right
RECURSIVE LevRow(_, _, _, _)
LevRow(previous_row, c1, s2, current_row) ==
    IF Len(current_row) = Len(s2) + 1 THEN current_row
    ELSE LET j == Len(current_row)
             insertions == previous_row[j + 1] + 1
             deletions == current_row[j] + 1
             substitutions == previous_row[j] + (IF c1 # s2[j] THEN 1 ELSE 0)
         IN LevRow(previous_row, c1, s2,
                   Append(current_row,
                          Min2(insertions, Min2(deletions, substitutions))))
RECURSIVE LevRows(_, _, _, _)
LevRows(s1, s2, i, previous_row) ==
    IF i > Len(s1) THEN previous_row[Len(previous_row)]
    ELSE LevRows(s1, s2, i + 1, LevRow(previous_row, s1[i], s2, <<i>>))
levenshtein_distance(a, b) ==
    LET s1 == IF Len(a) < Len(b) THEN b ELSE a
        s2 == IF Len(a) < Len(b) THEN a ELSE b
    IN IF Len(s2) = 0 THEN Len(s1)
       ELSE LevRows(s1, s2, 1, [k \in 1..(Len(s2) + 1) |-> k - 1])

\* as validate_product, but a product near a catalog key is kept as typed
validate_product_keeps_input(product_name) ==
    LET product_lower == Strip(Lower(product_name))
        close == {i \in 1..Len(VALID_PRODUCTS) :
                    levenshtein_distance(product_lower, VALID_PRODUCTS[i]) <= 2}
    IN IF product_name = <<>> \/ Len(Strip(product_name)) = 0
         THEN [ok |-> FALSE, product |-> <<>>, note |-> "Product name is required"]
       ELSE IF Len(product_lower) < 3
         THEN [ok |-> FALSE, product |-> <<>>, note |-> "Product name too short (minimum 3 characters)"]
       ELSE IF Len(product_lower) > 50
         THEN [ok |-> FALSE, product |-> <<>>, note |-> "Product name too long (maximum 50 characters)"]
       ELSE IF \E i \in 1..Len(VALID_PRODUCTS) : VALID_PRODUCTS[i] = product_lower
         THEN [ok |-> TRUE, product |-> product_lower, note |-> ""]
       ELSE IF close # {}
         THEN [ok |-> TRUE, product |-> product_lower, note |-> "auto-corrected"]
       ELSE [ok |-> FALSE, product |-> <<>>, note |-> "Unknown product"]

\* as validate_product, but the nearest catalog key is taken instead of the
\* first one within distance 2
validate_product_nearest_key(product_name) ==
    LET product_lower == Strip(Lower(product_name))
        dist(i) == levenshtein_distance(product_lower, VALID_PRODUCTS[i])
        close == {i \in 1..Len(VALID_PRODUCTS) : dist(i) <= 2}
        nearest == {i \in close : \A k \in close : dist(i) <= dist(k)}
    IN IF product_name = <<>> \/ Len(Strip(product_name)) = 0
         THEN [ok |-> FALSE, product |-> <<>>, note |-> "Product name is required"]
       ELSE IF Len(product_lower) < 3
         THEN [ok |-> FALSE, product |-> <<>>, note |-> "Product name too short (minimum 3 characters)"]
       ELSE IF Len(product_lower) > 50
         THEN [ok |-> FALSE, product |-> <<>>, note |-> "Product name too long (maximum 50 characters)"]
       ELSE IF \E i \in 1..Len(VALID_PRODUCTS) : VALID_PRODUCTS[i] = product_lower
         THEN [ok |-> TRUE, product |-> product_lower, note |-> ""]
       ELSE IF close # {}
         THEN [ok |-> TRUE, product |-> VALID_PRODUCTS[SetMin(nearest)],
               note |-> "auto-corrected"]
       ELSE [ok |-> FALSE, product |-> <<>>, note |-> "Unknown product"]

validate_product(product_name) ==
    LET product_lower == Strip(Lower(product_name))
        close == {i \in 1..Len(VALID_PRODUCTS) :
                    levenshtein_distance(product_lower, VALID_PRODUCTS[i]) <= 2}
    IN IF product_name = <<>> \/ Len(Strip(product_name)) = 0
         THEN [ok |-> FALSE, product |-> <<>>, note |-> "Product name is required"]
       ELSE IF Len(product_lower) < 3
         THEN [ok |-> FALSE, product |-> <<>>, note |-> "Product name too short (minimum 3 characters)"]
       ELSE IF Len(product_lower) > 50
         THEN [ok |-> FALSE, product |-> <<>>, note |-> "Product name too long (maximum 50 characters)"]
       ELSE IF \E i \in 1..Len(VALID_PRODUCTS) : VALID_PRODUCTS[i] = product_lower
         THEN [ok |-> TRUE, product |-> product_lower, note |-> ""]
       ELSE IF close # {}
         THEN [ok |-> TRUE, product |-> VALID_PRODUCTS[SetMin(close)],
               note |-> "auto-corrected"]
       ELSE [ok |-> FALSE, product |-> <<>>, note |-> "Unknown product"]

(***************************************************************************)
(* Dates: datetime.strptime for the six layouts, and the calendar.         *)
(***************************************************************************)
RECURSIVE SplitOn(_, _)
SplitOn(s, sep) ==
    LET at == {i \in 1..Len(s) : s[i] = sep}
    IN IF at = {} THEN <<s>>
       ELSE <<SubSeq(s, 1, SetMin(at) - 1)>>
            \o SplitOn(SubSeq(s, SetMin(at) + 1, Len(s)), sep)

\* %Y is \d\d\d\d; %m is 1[0-2]|0[1-9]|[1-9]; %d is 3[01]|[12]\d|0[1-9]|[1-9]| [1-9]
IsYearField(f) == Len(f) = 4 /\ AllIn(f, DigitChars)
IsMonthField(f) ==
    /\ Len(f) \in {1, 2} /\ AllIn(f, DigitChars)
    /\ DigitsVal(f) \in 1..12
IsDayField(f) ==
    \/ Len(f) \in {1, 2} /\ AllIn(f, DigitChars) /\ DigitsVal(f) \in 1..31
    \/ Len(f) = 2 /\ f[1] = " " /\ f[2] \in DigitChars /\ f[2] # "0"

IsLeap(y) == (y % 4 = 0 /\ y % 100 # 0) \/ y % 400 = 0
DaysInMonth(y, m) ==
    IF m = 2 THEN (IF IsLeap(y) THEN 29 ELSE 28)
    ELSE IF m \in {4, 6, 9, 11} THEN 30 ELSE 31
RECURSIVE DaysBeforeMonth(_, _)
DaysBeforeMonth(y, m) ==
    IF m = 1 THEN 0 ELSE DaysBeforeMonth(y, m - 1) + DaysInMonth(y, m - 1)
DaysBeforeYear(y) ==
    365 * (y - 1) + ((y - 1) \div 4) - ((y - 1) \div 100) + ((y - 1) \div 400)
\* datetime.toordinal()
Ordinal(y, m, d) == DaysBeforeYear(y) + DaysBeforeMonth(y, m) + d
YearOfOrdinal(n) ==
    CHOOSE y \in (n \div 366)..((n \div 365) + 1) :
        DaysBeforeYear(y) < n /\ n <= DaysBeforeYear(y + 1)

\* as formats_to_try, but month-day-year is tried before day-month-year
formats_to_try_month_first ==
    << [Y |-> 1, m |-> 2, d |-> 3, sep |-> "-"],
       [Y |-> 3, m |-> 1, d |-> 2, sep |-> "-"],
       [Y |-> 3, m |-> 2, d |-> 1, sep |-> "-"],
       [Y |-> 1, m |-> 2, d |-> 3, sep |-> "/"],
       [Y |-> 3, m |-> 1, d |-> 2, sep |-> "/"],
       [Y |-> 3, m |-> 2, d |-> 1, sep |-> "/"] >>

\* the layouts in the order of formats_to_try: the position of the year,
\* month and day field, and the separator
formats_to_try ==
    << [Y |-> 1, m |-> 2, d |-> 3, sep |-> "-"],
       [Y |-> 3, m |-> 2, d |-> 1, sep |-> "-"],
       [Y |-> 3, m |-> 1, d |-> 2, sep |-> "-"],
       [Y |-> 1, m |-> 2, d |-> 3, sep |-> "/"],
       [Y |-> 3, m |-> 2, d |-> 1, sep |-> "/"],
       [Y |-> 3, m |-> 1, d |-> 2, sep |-> "/"] >>

\* datetime.strptime(s, layout): does it parse, and to which date
StrptimeOk(s, fmt) ==
    LET parts == SplitOn(s, fmt.sep)
    IN /\ Len(parts) = 3
       /\ IsYearField(parts[fmt.Y])
       /\ IsMonthField(parts[fmt.m])
       /\ IsDayField(parts[fmt.d])
       /\ DigitsVal(parts[fmt.Y]) >= 1
       /\ DigitsVal(Strip(parts[fmt.d]))
            <= DaysInMonth(DigitsVal(parts[fmt.Y]), DigitsVal(parts[fmt.m]))
Strptime(s, fmt) ==
    LET parts == SplitOn(s, fmt.sep)
    IN [year |-> DigitsVal(parts[fmt.Y]),
        month |-> DigitsVal(parts[fmt.m]),
        day |-> DigitsVal(Strip(parts[fmt.d]))]

RECURSIVE ZeroPad(_, _)
ZeroPad(s, width) == IF Len(s) >= width THEN s ELSE ZeroPad(<<"0">> \o s, width)
\* strftime("%Y-%m-%d")
FormatDate(dt) ==
    ZeroPad(Str(dt.year), 4) \o <<"-">> \o ZeroPad(Str(dt.month), 2)
    \o <<"-">> \o ZeroPad(Str(dt.day), 2)

\* lines 291-326: the part of validate_purchase_date that does not read the
\* clock: "required" and "format" failures, else the date parsed
ParsePurchaseDate(date_string) ==
    LET ds == Strip(date_string)
        parsing == {i \in 1..Len(formats_to_try) : StrptimeOk(ds, formats_to_try[i])}
        parsed_date == Strptime(ds, formats_to_try[SetMin(parsing)])
    IN IF date_string = <<>> \/ Len(ds) = 0
         THEN [ok |-> FALSE, err |-> "Purchase date is required"]
       ELSE IF parsing = {}
         THEN [ok |-> FALSE, err |-> "Invalid date format"]
       ELSE IF parsed_date.year < 1990
         THEN [ok |-> FALSE, err |-> "Purchase date too old (year)"]
       ELSE [ok |-> TRUE, err |-> "", year |-> parsed_date.year,
             ord |-> Ordinal(parsed_date.year, parsed_date.month, parsed_date.day),
             date |-> FormatDate(parsed_date)]

\* lines 321-338: the checks against datetime.now(), for a date parsed;
\* clock = [ord |-> ordinal of today, secs |-> seconds since midnight]
CheckPurchaseDate(p, clock) ==
    LET bad(e) == [ok |-> FALSE, date |-> <<>>, err |-> e]
        \* parsed_date (midnight) < now - timedelta(days=3650)
        tooOld == IF clock.secs > 0 THEN p.ord <= clock.ord - 3650
                  ELSE p.ord < clock.ord - 3650
    IN IF ~ p.ok THEN bad(p.err)
       ELSE IF p.year > YearOfOrdinal(clock.ord)
         THEN bad("Purchase date cannot be in the future (year)")
       ELSE IF tooOld THEN bad("Purchase date too old")
       \* parsed_date (midnight) > now
       ELSE IF p.ord > clock.ord THEN bad("Purchase date cannot be in the future")
       ELSE [ok |-> TRUE, date |-> p.date, err |-> ""]

validate_purchase_date(date_string, clock) ==
    CheckPurchaseDate(ParsePurchaseDate(date_string), clock)

(***************************************************************************)
(* Description validation.  No products file is loaded, so PRODUCTS_CONFIG *)
(* is empty and the fallback keywords are used for every product.          *)
(***************************************************************************)
fallback_keywords ==
    << <<"b","r","o","k","e","n">>,
       <<"n","o","t"," ","w","o","r","k","i","n","g">>,
       <<"i","s","s","u","e">>,
       <<"p","r","o","b","l","e","m">> >>

\* characters that are not counted as special: " .,!?'-"
PlainPunctuation == {" ", ".", ",", "!", "?", "'", "-"}

\* number of 3-character windows of the word without a vowel
consonant_clusters(word_lower) ==
    Cardinality({i \in 1..(Len(word_lower) - 2) :
                   /\ word_lower[i] \notin Vowels
                   /\ word_lower[i + 1] \notin Vowels
                   /\ word_lower[i + 2] \notin Vowels})
IsSuspiciousWord(word) ==
    LET word_lower == StripChars(Lower(word), {".", ",", "!", "?"})
    IN Len(word_lower) >= 4
       /\ 3 * consonant_clusters(word_lower) > Len(word_lower)

\* as validate_issue_description, but a description that names the product
\* without a keyword is not taken as relevant
validate_issue_description_keywords_only(description, product) ==
    LET d == Strip(description)
        words == SplitWords(d)
        suspicious_word_count ==
            Cardinality({i \in 1..Len(words) : IsSuspiciousWord(words[i])})
        special_chars ==
            Cardinality({i \in 1..Len(d) :
                           d[i] \notin AlnumChars /\ d[i] \notin PlainPunctuation})
        description_lower == Lower(d)
        has_relevant_keyword ==
            \E k \in 1..Len(fallback_keywords) :
                Contains(description_lower, fallback_keywords[k])
        product_mentioned == Contains(description_lower, Lower(product))
    IN IF description = <<>> \/ Len(d) = 0
         THEN [ok |-> FALSE, err |-> "Issue description is required"]
       ELSE IF Len(d) < 10
         THEN [ok |-> FALSE, err |-> "Description too short"]
       ELSE IF Len(d) > 500
         THEN [ok |-> FALSE, err |-> "Description too long"]
       ELSE IF Len(words) < 3
         THEN [ok |-> FALSE, err |-> "Description too brief"]
       ELSE IF CountIn(Lower(d), Vowels) < 3
         THEN [ok |-> FALSE, err |-> "Description appears invalid"]
       ELSE IF Len(words) >= 2 /\ 2 * suspicious_word_count > Len(words)
         THEN [ok |-> FALSE, err |-> "Description contains gibberish"]
       ELSE IF 10 * special_chars > 3 * Len(d)
         THEN [ok |-> FALSE, err |-> "Description contains too many special characters"]
       ELSE IF MaxRepeats(d) > 5
         THEN [ok |-> FALSE, err |-> "Description contains excessive repeated characters"]
       ELSE IF product # <<>> /\ ~ has_relevant_keyword
         THEN [ok |-> FALSE, err |-> "Description doesn't seem related to the product"]
       ELSE [ok |-> TRUE, err |-> ""]

validate_issue_description(description, product) ==
    LET d == Strip(description)
        words == SplitWords(d)
        suspicious_word_count ==
            Cardinality({i \in 1..Len(words) : IsSuspiciousWord(words[i])})
        special_chars ==
            Cardinality({i \in 1..Len(d) :
                           d[i] \notin AlnumChars /\ d[i] \notin PlainPunctuation})
        description_lower == Lower(d)
        has_relevant_keyword ==
            \E k \in 1..Len(fallback_keywords) :
                Contains(description_lower, fallback_keywords[k])
        product_mentioned == Contains(description_lower, Lower(product))
    IN IF description = <<>> \/ Len(d) = 0
         THEN [ok |-> FALSE, err |-> "Issue description is required"]
       ELSE IF Len(d) < 10
         THEN [ok |-> FALSE, err |-> "Description too short"]
       ELSE IF Len(d) > 500
         THEN [ok |-> FALSE, err |-> "Description too long"]
       ELSE IF Len(words) < 3
         THEN [ok |-> FALSE, err |-> "Description too brief"]
       ELSE IF CountIn(Lower(d), Vowels) < 3
         THEN [ok |-> FALSE, err |-> "Description appears invalid"]
       ELSE IF Len(words) >= 2 /\ 2 * suspicious_word_count > Len(words)
         THEN [ok |-> FALSE, err |-> "Description contains gibberish"]
       ELSE IF 10 * special_chars > 3 * Len(d)
         THEN [ok |-> FALSE, err |-> "Description contains too many special characters"]
       ELSE IF MaxRepeats(d) > 5
         THEN [ok |-> FALSE, err |-> "Description contains excessive repeated characters"]
       ELSE IF product # <<>> /\ ~ has_relevant_keyword /\ ~ product_mentioned
         THEN [ok |-> FALSE, err |-> "Description doesn't seem related to the product"]
       ELSE [ok |-> TRUE, err |-> ""]

(***************************************************************************)
(* Constant texts of the program.                                          *)
(***************************************************************************)
T_unknown == <<"u","n","k","n","o","w","n">>
T_NA == <<"N","/","A">>
T_LOGIN == <<"L","O","G","I","N">>
T_LOGOUT == <<"L","O","G","O","U","T">>
T_RESOLVE_TICKET == <<"R","E","S","O","L","V","E","_","T","I","C","K","E","T">>
T_CHANGE_PRIORITY == <<"C","H","A","N","G","E","_","P","R","I","O","R","I","T","Y">>
T_RESOLVE == <<"R","E","S","O","L","V","E">>
T_Low == <<"L","o","w">>
T_Medium == <<"M","e","d","i","u","m">>
T_High == <<"H","i","g","h">>
T_Critical == <<"C","r","i","t","i","c","a","l">>
T_Unknown == <<"U","n","k","n","o","w","n">>
T_Open == <<"O","p","e","n">>
T_Resolved == <<"R","e","s","o","l","v","e","d">>
T_remote_addr == <<"1","2","7",".","0",".","0",".","1">>

\* an optional value: None is <<>>, a present value v is <<v>>
None == <<>>
Some(v) == <<v>>

(***************************************************************************)
(* Files.  A CSV file is [exists, rows]; rows are sequences of fields.     *)
(***************************************************************************)
NoFile == [exists |-> FALSE, rows |-> <<>>]
FileOf(rows) == [exists |-> TRUE, rows |-> rows]

\* the header init_db writes to resolved_tickets.csv
ResolvedHeader ==
   << <<"T","i","c","k","e","t"," ","I","D">>,
      <<"C","u","s","t","o","m","e","r"," ","N","a","m","e">>,
      <<"C","u","s","t","o","m","e","r"," ","E","m","a","i","l">>,
      <<"P","r","o","d","u","c","t">>,
      <<"P","u","r","c","h","a","s","e"," ","D","a","t","e">>,
      <<"I","s","s","u","e"," ","D","e","s","c","r","i","p","t","i","o","n">>,
      <<"P","r","i","o","r","i","t","y">>,
      <<"Q","u","e","u","e"," ","E","n","t","r","y"," ","T","i","m","e">>,
      <<"R","e","s","o","l","v","e","d"," ","A","t">>,
      <<"R","e","s","o","l","v","e","d"," ","B","y">> >>
\* the header init_db writes to admin_activity_log.csv
AuditHeader ==
   << <<"T","i","m","e","s","t","a","m","p">>,
      <<"A","d","m","i","n"," ","U","s","e","r","n","a","m","e">>,
      <<"A","d","m","i","n"," ","N","a","m","e">>,
      <<"A","c","t","i","o","n">>,
      <<"T","i","c","k","e","t"," ","I","D">>,
      <<"D","e","t","a","i","l","s">>,
      <<"I","P"," ","A","d","d","r","e","s","s">> >>
\* the header of the active partition, written by the external worker
ActiveHeader == SubSeq(ResolvedHeader, 1, 8)

\* the rows a reader yields after next(reader, None) has skipped the header
DataRows(file) ==
    IF file.exists /\ Len(file.rows) > 0 THEN Tail(file.rows) ELSE <<>>
\* sum(1 for line in f): a field holding a line break spans two lines
RECURSIVE LineBreaks(_)
LineBreaks(row) ==
    IF row = <<>> THEN 0 ELSE CountIn(Head(row), {"\n"}) + LineBreaks(Tail(row))
RECURSIVE LinesOf(_)
LinesOf(rows) ==
    IF rows = <<>> THEN 0 ELSE 1 + LineBreaks(Head(rows)) + LinesOf(Tail(rows))
LineCount(file) == LinesOf(file.rows)

\* the ids int(row[0]) parses among the rows; other rows are passed over
IdsOf(rows) ==
    {ParseInt(rows[i][1]) : i \in {k \in 1..Len(rows) :
                                      rows[k] # <<>> /\ IsInt(rows[k][1])}}

get_next_ticket_id_resolved_unscanned(activeF, pendingF, resolvedF) ==
    SetMax({1000} \cup IdsOf(DataRows(activeF))
                  \cup IdsOf(IF pendingF.exists THEN pendingF.rows ELSE <<>>)) + 1

\* as get_next_ticket_id, but the first row of pending is passed over as the
\* header of the two other files is
get_next_ticket_id_pending_header_skipped(activeF, pendingF, resolvedF) ==
    SetMax({1000} \cup IdsOf(DataRows(activeF))
                  \cup IdsOf(DataRows(pendingF))
                  \cup IdsOf(DataRows(resolvedF))) + 1

get_next_ticket_id(activeF, pendingF, resolvedF) ==
    SetMax({1000} \cup IdsOf(DataRows(activeF))
                  \cup IdsOf(IF pendingF.exists THEN pendingF.rows ELSE <<>>)
                  \cup IdsOf(DataRows(resolvedF))) + 1

\* [dup, id]: the first active row with the same email and the same
\* description prefix
check_duplicate_ticket(activeF, email, description) ==
    LET desc_prefix == Strip(Lower(Prefix(description, 30)))
        rows == DataRows(activeF)
        matches == {i \in 1..Len(rows) :
                      /\ Len(rows[i]) >= 6
                      /\ Lower(Strip(rows[i][3])) = Lower(email)
                      /\ Prefix(Lower(Strip(rows[i][6])), 30) = desc_prefix}
    IN IF ~ activeF.exists \/ matches = {}
       THEN [dup |-> FALSE, id |-> None]
       ELSE [dup |-> TRUE, id |-> Some(rows[SetMin(matches)][1])]

(***************************************************************************)
(* Admin accounts (admins.csv as init_db creates it) and the audit log.    *)
(***************************************************************************)
\* hashlib.sha256(...).hexdigest(): an injective tag on the password
hash_password(password) == <<"s","h","a","2","5","6",":">> \o password

\* username, password, full name, role of the default accounts
DefaultAdmins ==
  << << <<"a","d","m","i","n">>,
        <<"A","d","m","i","n","@","D","S","A","2","0","2","5","!">>,
        <<"S","y","s","t","e","m"," ","A","d","m","i","n","i","s","t","r","a","t","o","r">>,
        <<"S","u","p","e","r"," ","A","d","m","i","n">> >>,
     << <<"m","a","n","a","g","e","r","1">>,
        <<"M","a","n","a","g","e","r","@","1","2","3">>,
        <<"J","o","h","n"," ","M","a","n","a","g","e","r">>,
        <<"M","a","n","a","g","e","r">> >>,
     << <<"s","u","p","p","o","r","t","1">>,
        <<"S","u","p","p","o","r","t","@","1","2","3">>,
        <<"S","a","r","a","h"," ","S","u","p","p","o","r","t">>,
        <<"S","u","p","p","o","r","t"," ","A","g","e","n","t">> >>,
     << <<"a","n","a","l","y","s","t","1">>,
        <<"A","n","a","l","y","s","t","@","1","2","3">>,
        <<"M","i","k","e"," ","A","n","a","l","y","s","t">>,
        <<"D","a","t","a"," ","A","n","a","l","y","s","t">> >>,
     << <<"s","u","p","e","r","v","i","s","o","r","1">>,
        <<"S","u","p","e","r","v","i","s","o","r","@","1","2","3">>,
        <<"L","i","s","a"," ","S","u","p","e","r","v","i","s","o","r">>,
        <<"S","u","p","e","r","v","i","s","o","r">> >> >>
\* the rows of admins.csv: username, password_hash, full_name, role
AdminRows ==
    [i \in 1..Len(DefaultAdmins) |->
        <<DefaultAdmins[i][1], hash_password(DefaultAdmins[i][2]),
          DefaultAdmins[i][3], DefaultAdmins[i][4]>>]

check_admin(username, password) ==
    LET hit == {i \in 1..Len(AdminRows) :
                  /\ Len(AdminRows[i]) >= 4
                  /\ AdminRows[i][1] = username
                  /\ AdminRows[i][2] = hash_password(password)}
    IN IF hit = {} THEN [valid |-> FALSE, full_name |-> <<>>, role |-> <<>>]
       ELSE [valid |-> TRUE, full_name |-> AdminRows[SetMin(hit)][3],
             role |-> AdminRows[SetMin(hit)][4]]

(***************************************************************************)
(* State.                                                                  *)
(***************************************************************************)
VARIABLES
    pending,    \* pending_tickets.csv (no header)
    active,     \* customer_support_tickets_updated.csv
    resolved,   \* resolved_tickets.csv
    audit,      \* admin_activity_log.csv
    commands,   \* admin_commands.txt: [exists, text]
    sessions,   \* the Flask session of each browser
    now,        \* the clock: seconds since midnight of BootDate
    resp,       \* the last request served and its response
    allocated,  \* history: the ids Submit has allocated, in order
    inflight    \* requests between two of their file accesses

vars == <<pending, active, resolved, audit, commands, sessions, now, resp,
          allocated, inflight>>

\* the day the server is started
BootDate == [year |-> 2026, month |-> 11, day |-> 2]
\* datetime.now() at clock value t
Clock(t) ==
    [ord |-> Ordinal(BootDate.year, BootDate.month, BootDate.day) + (t \div 86400),
     secs |-> t % 86400]

(***************************************************************************)
(* Inputs.                                                                 *)
(***************************************************************************)
D_slow_today == <<"m","y"," ","s","s","d"," ","i","s"," ","b","r","o","k","e","n"," ","a","n","d"," ","i","t"," ","i","s"," ","s","l","o","w"," ","t","o","d","a","y">>
D_slow == <<"m","y"," ","s","s","d"," ","i","s"," ","b","r","o","k","e","n"," ","a","n","d"," ","i","t"," ","i","s"," ","s","l","o","w">>
D_so_slow == <<"m","y"," ","s","s","d"," ","i","s"," ","b","r","o","k","e","n"," ","a","n","d"," ","i","t"," ","i","s"," ","s","o"," ","s","l","o","w">>
E_al == <<"a","l","@","e","x",".","i","o">>
E_AL == <<"A","L","@","e","x",".","i","o">>
E_bo == <<"b","o","@","e","x",".","i","o">>
E_bad == <<"a","l","@","e","x">>

\* the forms posted to /submit_ticket
Form(name, email, product, dop, description) ==
    [name |-> name, email |-> email, product |-> product, dop |-> dop,
     description |-> description]
Forms ==
    { Form(<<"A","l">>, E_al, <<"s","s","d">>,
           <<"2","0","2","4","-","0","5","-","0","1">>, D_slow_today),
      Form(<<"A","l">>, E_AL, <<" ","S","S","D">>,
           <<"2","0","2","4","-","0","5","-","0","1">>, D_slow),
      Form(<<"B","o">>, E_bo, <<"s","d","d">>,
           <<"3","1","-","1","2","-","2","0","2","4">>, D_so_slow),
      Form(<<"A","l">>, E_bad, <<"s","s","d">>,
           <<"2","0","2","4","-","0","5","-","0","1">>, D_slow_today) }

\* forms with a comma in the name and in the description, a line break in the
\* description, an email in capitals, a product two edits from a catalog key
\* and one far from every key
D_comma == <<"m","y"," ","s","s","d"," ","i","s"," ","b","r","o","k","e","n",","," ","a","n","d"," ","s","l","o","w">>
D_crlf == <<"m","y"," ","s","s","d"," ","i","s"," ","b","r","o","k","e","n","\r","\n","a","n","d"," ","s","l","o","w">>
StoreForms ==
    { Form(<<"A","l",","," ","J","r">>, E_AL, <<" ","S","S","D">>,
           <<"2","0","2","4","-","0","5","-","0","1">>, D_comma),
      Form(<<"A","l">>, E_al, <<"s","s","d">>,
           <<"2","0","2","4","-","0","5","-","0","1">>, D_crlf),
      Form(<<"B","o">>, E_bo, <<"s","d","d">>,
           <<"3","1","-","1","2","-","2","0","2","4">>, D_so_slow),
      Form(<<"B","o">>, E_bo, <<"s","s","d","x","x">>,
           <<"2","0","2","4","-","0","5","-","0","1">>, D_slow_today),
      Form(<<"B","o">>, E_bo, <<"z","z","z","z","z","z">>,
           <<"2","0","2","4","-","0","5","-","0","1">>, D_slow_today) }
\* forms that fail several validators at once, a form that fails the last
\* one only, and a form with a bad name that repeats a stored complaint
D_short == <<"s","h","o","r","t">>
D_unrelated == <<"x","y","z"," ","u","n","r","e","l","a","t","e","d"," ","g","a","d","g","e","t"," ","n","o","i","s","e">>
T_bad_date == <<"2","0","2","4","-","1","3","-","4","0">>
OrderForms ==
    { Form(<<"1">>, E_bad, <<"z","z","z","z","z","z">>, T_bad_date, D_short),
      Form(<<"B","o">>, E_bad, <<"z","z","z","z","z","z">>, T_bad_date, D_short),
      Form(<<"B","o">>, E_bo, <<"z","z","z","z","z","z">>, T_bad_date, D_short),
      Form(<<"B","o">>, E_bo, <<"s","s","d">>, T_bad_date, D_short),
      Form(<<"B","o">>, E_bo, <<"s","s","d">>,
           <<"2","0","2","4","-","0","5","-","0","1">>, D_unrelated),
      Form(<<"1">>, E_al, <<"s","s","d">>,
           <<"2","0","2","4","-","0","5","-","0","1">>, D_slow_today) }
AllForms == Forms \cup StoreForms \cup OrderForms

\* the ticket ids requests name: the ids the bound allows, and one beyond
TicketIds == 1001..(1001 + MaxTickets)
StatusEmails == {E_al, E_bo}

SessionIds == {"s1", "s2"}
Threads == {1, 2}

(***************************************************************************)
(* submit_ticket.                                                          *)
(***************************************************************************)
\* lines 773-777: the fields of the form, stripped and escaped
Sanitised(form) ==
    [name |-> HtmlEscape(Strip(form.name)),
     email |-> HtmlEscape(Strip(form.email)),
     product |-> HtmlEscape(Strip(form.product)),
     purchase_date |-> HtmlEscape(Strip(form.dop)),
     description |-> HtmlEscape(Strip(form.description))]

\* the verdicts of the validators, up to the reading of the clock, for
\* every form (they are functions of the form alone): pairs <<form, verdicts>>
FormChecks ==
    {<<form,
       LET f == Sanitised(form)
           productV == validate_product(f.product)
       IN [nameV |-> validate_name(f.name),
           emailV |-> validate_email(f.email),
           productV |-> productV,
           dateP |-> ParsePurchaseDate(f.purchase_date),
           descV |-> validate_issue_description(f.description, productV.product),
           description |-> ReplaceChar(f.description, ",", <<";">>),
           f |-> f]>> : form \in AllForms}

\* as SubmitFields, but the email is validated before the name
SubmitFields_email_first(form, clock) ==
    LET c == (CHOOSE p \in FormChecks : p[1] = form)[2]
        dateV == CheckPurchaseDate(c.dateP, clock)
        bad(e) == [ok |-> FALSE, error |-> e, row |-> <<>>, note |-> ""]
    IN IF ~ c.emailV.ok THEN bad(c.emailV.err)
       ELSE IF ~ c.nameV.ok THEN bad(c.nameV.err)
       ELSE IF ~ c.productV.ok THEN bad(c.productV.note)
       ELSE IF ~ dateV.ok THEN bad(dateV.err)
       ELSE IF ~ c.descV.ok THEN bad(c.descV.err)
       ELSE [ok |-> TRUE, error |-> "",
             row |-> <<c.f.name, c.f.email, c.productV.product, dateV.date,
                       c.description>>,
             note |-> c.productV.note]

\* lines 779-818: the first validation error, or the fields of the row to
\* store (the product corrected, the date standardised, the commas of the
\* description replaced)
SubmitFields(form, clock) ==
    LET c == (CHOOSE p \in FormChecks : p[1] = form)[2]
        dateV == CheckPurchaseDate(c.dateP, clock)
        bad(e) == [ok |-> FALSE, error |-> e, row |-> <<>>, note |-> ""]
    IN IF ~ c.nameV.ok THEN bad(c.nameV.err)
       ELSE IF ~ c.emailV.ok THEN bad(c.emailV.err)
       ELSE IF ~ c.productV.ok THEN bad(c.productV.note)
       ELSE IF ~ dateV.ok THEN bad(dateV.err)
       ELSE IF ~ c.descV.ok THEN bad(c.descV.err)
       ELSE [ok |-> TRUE, error |-> "",
             row |-> <<c.f.name, c.f.email, c.productV.product, dateV.date,
                       c.description>>,
             note |-> c.productV.note]

\* lines 837-846: the queue size reported to the customer
queue_size(activeF, pendingF) ==
    (IF activeF.exists THEN LineCount(activeF) - 1 ELSE 0)
    + (IF pendingF.exists THEN LineCount(pendingF) ELSE 0)

SubmitResp(form, outcome, error, new_id, size, note) ==
    [op |-> "submit_ticket", req |-> form,
     out |-> [outcome |-> outcome, error |-> error, new_id |-> new_id,
              queue_size |-> size, note |-> note]]

\* lines 832-835: the row appended to pending_tickets.csv
AppendPending(pendingF, new_ticket_id, fields) ==
    FileOf(Append(pendingF.rows, <<Str(new_ticket_id)>> \o fields))

\* as submit_ticket, but the duplicate check reads resolved as well
submit_ticket_scans_resolved(form) ==
    \E f \in {SubmitFields(form, Clock(now))} :
        IF ~ f.ok
          THEN /\ resp' = SubmitResp(form, "error", f.error, None, 0, "")
               /\ UNCHANGED <<pending, allocated>>
        ELSE \E da \in {check_duplicate_ticket(active, f.row[2], f.row[5])},
                dr \in {check_duplicate_ticket(resolved, f.row[2], f.row[5])},
                new_ticket_id \in {get_next_ticket_id(active, pending, resolved)} :
          IF da.dup \/ dr.dup
            THEN /\ resp' = SubmitResp(form, "duplicate", "",
                                       IF da.dup THEN da.id ELSE dr.id, 0, "")
                 /\ UNCHANGED <<pending, allocated>>
          ELSE \E pending2 \in {AppendPending(pending, new_ticket_id, f.row)} :
                 /\ Len(allocated) < MaxTickets
                 /\ pending' = pending2
                 /\ allocated' = Append(allocated, new_ticket_id)
                 /\ resp' = SubmitResp(form, "created", "", Some(Str(new_ticket_id)),
                                       queue_size(active, pending2), f.note)

\* the whole handler, served without interruption
submit_ticket(form) ==
    \E f \in {SubmitFields(form, Clock(now))} :
        IF ~ f.ok
          THEN /\ resp' = SubmitResp(form, "error", f.error, None, 0, "")
               /\ UNCHANGED <<pending, allocated>>
        ELSE \E d \in {check_duplicate_ticket(active, f.row[2], f.row[5])},
                new_ticket_id \in {get_next_ticket_id(active, pending, resolved)} :
          IF d.dup
            THEN /\ resp' = SubmitResp(form, "duplicate", "", d.id, 0, "")
                 /\ UNCHANGED <<pending, allocated>>
          ELSE \E pending2 \in {AppendPending(pending, new_ticket_id, f.row)} :
                 /\ Len(allocated) < MaxTickets
                 /\ pending' = pending2
                 /\ allocated' = Append(allocated, new_ticket_id)
                 /\ resp' = SubmitResp(form, "created", "", Some(Str(new_ticket_id)),
                                       queue_size(active, pending2), f.note)

SubmitOf(forms) ==
    \E form \in forms :
        /\ submit_ticket(form)
        /\ UNCHANGED <<active, resolved, audit, commands, sessions, now, inflight>>

(***************************************************************************)
(* check_status.                                                           *)
(***************************************************************************)
\* round(num / den) to the nearest integer, ties to the even one
RoundHalfEven(num, den) ==
    LET q == num \div den
        r == num % den
    IN IF 2 * r > den \/ (2 * r = den /\ q % 2 = 1) THEN q + 1 ELSE q

\* lines 939-943, for w seconds of waiting: "<m> minutes" below one hour,
\* "<h>.<t> hours" from one hour on (a tie of the tenths is rounded to even)
FormatWait(w) ==
    LET a == IF w < 0 THEN 0 - w ELSE w
        sign == IF w < 0 THEN <<"-">> ELSE <<>>
        tenths == RoundHalfEven(a, 360)
    IN IF w < 3600
       THEN sign \o Str(RoundHalfEven(a, 60)) \o <<" ","m","i","n","u","t","e","s">>
       ELSE Str(tenths \div 10) \o <<".">> \o Str(tenths % 10)
            \o <<" ","h","o","u","r","s">>

\* as search_csv, but the row is handed over whatever the email
search_csv_email_unchecked(file, ticket_id, email_input) ==
    LET rows == DataRows(file)
        hits == {i \in 1..Len(rows) :
                   Len(rows[i]) >= 6 /\ Strip(rows[i][1]) = ticket_id}
    IN IF ~ file.exists \/ hits = {} THEN [kind |-> "none", row |-> <<>>]
       ELSE [kind |-> "row", row |-> rows[SetMin(hits)]]

\* lines 886-908: the first row of at least 6 fields with the id decides
search_csv(file, ticket_id, email_input) ==
    LET rows == DataRows(file)
        hits == {i \in 1..Len(rows) :
                   Len(rows[i]) >= 6 /\ Strip(rows[i][1]) = ticket_id}
        row == rows[SetMin(hits)]
    IN IF ~ file.exists \/ hits = {} THEN [kind |-> "none", row |-> <<>>]
       ELSE IF Lower(Strip(row[3])) = email_input
         THEN [kind |-> "row", row |-> row]
       ELSE [kind |-> "unauthorized", row |-> <<>>]

StatusView(ticket_id, status, customer, product, dop, issue, priority, wait_time, queue_position, resolve_time, error) ==
    [ticket_id |-> ticket_id, status |-> status, customer |-> customer,
     product |-> product, dop |-> dop, issue |-> issue, priority |-> priority,
     wait_time |-> wait_time, queue_position |-> queue_position,
     resolve_time |-> resolve_time, error |-> error]
StatusError(msg) ==
    StatusView(None, None, None, None, None, None, None, None, None, None,
               Some(msg))

\* as queue_position, but the header is counted among the rows read
queue_position_header_counted(activeF, ticket_id) ==
    LET rows == activeF.rows
        at == {i \in 1..Len(rows) :
                 rows[i] # <<>> /\ Strip(rows[i][1]) = ticket_id}
    IN IF at = {} THEN Len(rows) + 1 ELSE SetMin(at)

\* lines 923-932: one more than the number of rows read before the row
\* with the id
queue_position(activeF, ticket_id) ==
    LET rows == DataRows(activeF)
        at == {i \in 1..Len(rows) :
                 rows[i] # <<>> /\ Strip(rows[i][1]) = ticket_id}
    IN IF at = {} THEN Len(rows) + 1 ELSE SetMin(at)

\* lines 935-945
wait_time(row, t) ==
    IF Len(row) > 7 /\ row[8] # <<>>
    THEN IF IsInt(row[8])
         THEN Some(FormatWait(t - ParseInt(row[8])))
         ELSE Some(<<"C","a","l","c","u","l","a","t","i","n","g",".",".",".">>)
    ELSE None

\* as check_status, but resolved is searched before active
check_status_resolved_first(activeF, resolvedF, ticket_id_raw, email_raw, t) ==
    LET ticket_id == HtmlEscape(Strip(ticket_id_raw))
        email_input == HtmlEscape(Lower(Strip(email_raw)))
        a == search_csv(activeF, ticket_id, email_input)
        r == search_csv(resolvedF, ticket_id, email_input)
    IN IF r.kind = "unauthorized"
         THEN StatusError("Ticket ID exists but Email does not match")
       ELSE IF r.kind = "row"
         THEN StatusView(Some(ticket_id), Some(T_Resolved), Some(Strip(r.row[2])),
                         Some(Strip(r.row[4])), Some(Strip(r.row[5])),
                         Some(Strip(r.row[6])),
                         Some(IF Len(r.row) > 6 THEN Strip(r.row[7]) ELSE T_NA),
                         None, None,
                         Some(IF Len(r.row) > 8 THEN Strip(r.row[9]) ELSE T_NA),
                         None)
       ELSE IF a.kind = "unauthorized"
         THEN StatusError("Ticket ID exists but Email does not match")
       ELSE IF a.kind = "row"
         THEN StatusView(Some(ticket_id), Some(T_Open), Some(Strip(a.row[2])),
                         Some(Strip(a.row[4])), Some(Strip(a.row[5])),
                         Some(Strip(a.row[6])),
                         Some(IF Len(a.row) > 6 THEN Strip(a.row[7]) ELSE T_NA),
                         wait_time(a.row, t),
                         Some(queue_position(activeF, ticket_id)), None, None)
       ELSE StatusError("Ticket ID not found in our database.")

\* the values handed to the status page
check_status(activeF, resolvedF, ticket_id_raw, email_raw, t) ==
    LET ticket_id == HtmlEscape(Strip(ticket_id_raw))
        email_input == HtmlEscape(Lower(Strip(email_raw)))
        a == search_csv(activeF, ticket_id, email_input)
        r == search_csv(resolvedF, ticket_id, email_input)
    IN IF a.kind = "unauthorized"
         THEN StatusError("Ticket ID exists but Email does not match")
       ELSE IF a.kind = "row"
         THEN StatusView(Some(ticket_id), Some(T_Open), Some(Strip(a.row[2])),
                         Some(Strip(a.row[4])), Some(Strip(a.row[5])),
                         Some(Strip(a.row[6])),
                         Some(IF Len(a.row) > 6 THEN Strip(a.row[7]) ELSE T_NA),
                         wait_time(a.row, t),
                         Some(queue_position(activeF, ticket_id)), None, None)
       ELSE IF r.kind = "unauthorized"
         THEN StatusError("Ticket ID exists but Email does not match")
       ELSE IF r.kind = "row"
         THEN StatusView(Some(ticket_id), Some(T_Resolved), Some(Strip(r.row[2])),
                         Some(Strip(r.row[4])), Some(Strip(r.row[5])),
                         Some(Strip(r.row[6])),
                         Some(IF Len(r.row) > 6 THEN Strip(r.row[7]) ELSE T_NA),
                         None, None,
                         Some(IF Len(r.row) > 8 THEN Strip(r.row[9]) ELSE T_NA),
                         None)
       ELSE StatusError("Ticket ID not found in our database.")

CheckStatusOf(ids, emails) ==
    \E id \in ids, email \in emails :
        /\ resp' = [op |-> "check_status",
                    req |-> [ticket_id |-> Str(id), email |-> email],
                    out |-> check_status(active, resolved, Str(id), email, now)]
        /\ UNCHANGED <<pending, active, resolved, audit, commands, sessions,
                       now, allocated, inflight>>

(***************************************************************************)
(* The external worker: it promotes pending tickets into the active        *)
(* partition and drains the command channel.                               *)
(***************************************************************************)
\* the first pending row leaves pending and joins active, stamped with the
\* default priority and the queue-entry time, in one step
move_pending_to_active(pendingF, activeF, t) ==
    [pending |-> FileOf(Tail(pendingF.rows)),
     active |-> FileOf((IF activeF.exists THEN activeF.rows ELSE <<ActiveHeader>>)
                       \o <<Head(pendingF.rows) \o <<T_NA, Str(t)>>>>)]

\* the position, among all rows of the active file, of the rows with the id
ActiveRowsWithId(activeF, id_text) ==
    {i \in 2..Len(activeF.rows) :
        activeF.rows[i] # <<>> /\ Strip(activeF.rows[i][1]) = id_text}
RemoveAt(rows, i) == SubSeq(rows, 1, i - 1) \o SubSeq(rows, i + 1, Len(rows))

\* the row with the id leaves active and joins resolved, stamped with the
\* resolution time and the resolver, in one step
mark_resolved(activeF, resolvedF, id_text, resolver, t) ==
    LET i == SetMin(ActiveRowsWithId(activeF, id_text))
    IN [active |-> FileOf(RemoveAt(activeF.rows, i)),
        resolved |-> FileOf((IF resolvedF.exists THEN resolvedF.rows
                             ELSE <<ResolvedHeader>>)
                            \o <<activeF.rows[i] \o <<Str(t), resolver>>>>)]

WorkerResp(step) == [op |-> step, req |-> <<>>, out |-> <<>>]

WorkerPromote ==
    /\ pending.exists /\ pending.rows # <<>>
    /\ LET m == move_pending_to_active(pending, active, now)
       IN pending' = m.pending /\ active' = m.active
    /\ resp' = WorkerResp("worker_promote")
    /\ UNCHANGED <<resolved, audit, commands, sessions, now, allocated, inflight>>

\* the instruction "RESOLVE <ticket_id> <admin_username>" is read and the
\* channel emptied; a ticket that is not active is left where it is
WorkerDrain ==
    /\ commands.exists /\ commands.text # <<>>
    /\ LET words == SplitWords(commands.text)
           applies == /\ Len(words) = 3 /\ words[1] = T_RESOLVE
                      /\ active.exists
                      /\ ActiveRowsWithId(active, words[2]) # {}
           m == mark_resolved(active, resolved, words[2], words[3], now)
           next == IF applies THEN m ELSE [active |-> active, resolved |-> resolved]
       IN active' = next.active /\ resolved' = next.resolved
    /\ commands' = [exists |-> TRUE, text |-> <<>>]
    /\ resp' = WorkerResp("worker_drain")
    /\ UNCHANGED <<pending, audit, sessions, now, allocated, inflight>>

\* time passes
TickSteps == {30, 60}
Tick ==
    \E d \in TickSteps :
        /\ now + d <= MaxTime
        /\ now' = now + d
        /\ resp' = WorkerResp("tick")
        /\ UNCHANGED <<pending, active, resolved, audit, commands, sessions,
                       allocated, inflight>>

(***************************************************************************)
(* Sessions and the audit log.                                             *)
(***************************************************************************)
\* a session without keys; resolved and resolved_time hold the keys
\* resolved_<id> and resolved_time_<id>
EmptySession ==
    [is_admin |-> FALSE, admin_username |-> <<>>, admin_name |-> <<>>,
     admin_role |-> <<>>, resolved |-> {}, resolved_time |-> <<>>]

\* strftime('%Y-%m-%d %H:%M:%S') of datetime.now() at clock value t
FormatTimestamp(t) ==
    LET c == Clock(t)
        y == YearOfOrdinal(c.ord)
        doy == c.ord - DaysBeforeYear(y)
        m == CHOOSE k \in 1..12 :
                 DaysBeforeMonth(y, k) < doy
                 /\ doy <= DaysBeforeMonth(y, k) + DaysInMonth(y, k)
    IN FormatDate([year |-> y, month |-> m, day |-> doy - DaysBeforeMonth(y, m)])
       \o <<" ">> \o ZeroPad(Str(c.secs \div 3600), 2)
       \o <<":">> \o ZeroPad(Str((c.secs % 3600) \div 60), 2)
       \o <<":">> \o ZeroPad(Str(c.secs % 60), 2)

\* as log_admin_activity, but the row is written twice
log_admin_activity_twice(auditF, sess, action, ticket_id, details, t, ok) ==
    LET admin_username == IF sess.is_admin THEN sess.admin_username ELSE T_unknown
        admin_name == IF sess.is_admin THEN sess.admin_name ELSE T_unknown
        row == <<FormatTimestamp(t), admin_username, admin_name, action,
                 ticket_id, details, T_remote_addr>>
    IN IF ok THEN FileOf(auditF.rows \o <<row, row>>) ELSE auditF

\* the row appended to the log; when the write raises (ok = FALSE) the
\* exception is caught and the log is left as it was
log_admin_activity(auditF, sess, action, ticket_id, details, t, ok) ==
    LET admin_username == IF sess.is_admin THEN sess.admin_username ELSE T_unknown
        admin_name == IF sess.is_admin THEN sess.admin_name ELSE T_unknown
    IN IF ok
       THEN FileOf(Append(auditF.rows,
                <<FormatTimestamp(t), admin_username, admin_name, action,
                  ticket_id, details, T_remote_addr>>))
       ELSE auditF

\* the log holds fewer than room entries: a request that writes to the log
\* is served only while it does (a bound of the model)
AuditRoom(room) == Len(audit.rows) <= room

(***************************************************************************)
(* auth (admin role) and admin_logout.                                     *)
(***************************************************************************)

auth(s, username, password, ok) ==
    LET c == check_admin(username, password)
        sess == [sessions[s] EXCEPT !.is_admin = TRUE,
                                    !.admin_username = username,
                                    !.admin_name = c.full_name,
                                    !.admin_role = c.role]
    IN IF c.valid
       THEN /\ sessions' = [sessions EXCEPT ![s] = sess]
            /\ audit' = log_admin_activity(audit, sess, T_LOGIN, <<>>,
                           c.full_name
                           \o <<" ","l","o","g","g","e","d"," ","i","n"," ","a","s"," ">>
                           \o c.role, now, ok)
            /\ resp' = [op |-> "auth", req |-> [session |-> s, username |-> username],
                        out |-> [redirect |-> "admin_dashboard"]]
       ELSE /\ UNCHANGED <<sessions, audit>>
            /\ resp' = [op |-> "auth", req |-> [session |-> s, username |-> username],
                        out |-> [redirect |-> "login_page"]]

LoginOf(S, creds, outcomes, room) ==
    \E s \in S, cred \in creds, ok \in outcomes :
        /\ auth(s, cred[1], cred[2], ok)
        /\ (AuditRoom(room) \/ audit' = audit)
        /\ UNCHANGED <<pending, active, resolved, commands, now, allocated, inflight>>

admin_logout(s, ok) ==
    /\ audit' = log_admin_activity(audit, sessions[s], T_LOGOUT, <<>>,
                   <<"A","d","m","i","n"," ","l","o","g","g","e","d"," ","o","u","t">>,
                   now, ok)
    /\ sessions' = [sessions EXCEPT ![s] = EmptySession]
    /\ resp' = [op |-> "admin_logout", req |-> [session |-> s],
                out |-> [redirect |-> "login_page"]]

LogoutOf(S, outcomes, room) ==
    \E s \in S, ok \in outcomes :
        /\ admin_logout(s, ok)
        /\ (AuditRoom(room) \/ audit' = audit)
        /\ UNCHANGED <<pending, active, resolved, commands, now, allocated, inflight>>

(***************************************************************************)
(* resolve_ticket.                                                         *)
(***************************************************************************)
ResolveResp(s, ticket_id, branch, redirect) ==
    [op |-> "resolve_ticket", req |-> [session |-> s, ticket_id |-> ticket_id],
     out |-> [branch |-> branch, redirect |-> redirect]]

\* line 1035: the text written to admin_commands.txt
ResolveCommand(ticket_id, admin_username) ==
    T_RESOLVE \o <<" ">> \o Str(ticket_id) \o <<" ">> \o admin_username

\* lines 1023-1027: was the ticket resolved from this session less than 60
\* seconds ago
RecentlyResolved(sess, ticket_id, current_time) ==
    LET last_resolved_time == IF ticket_id \in DOMAIN sess.resolved_time
                              THEN sess.resolved_time[ticket_id] ELSE 0
    IN ticket_id \in sess.resolved /\ (current_time - last_resolved_time) < 60

\* as resolve_ticket, without the session guard
resolve_ticket_unguarded(s, ticket_id, ok) ==
    LET sess == sessions[s]
        sess2 == [sess EXCEPT !.resolved = @ \cup {ticket_id},
                              !.resolved_time = (ticket_id :> now) @@ @]
    IN IF RecentlyResolved(sess, ticket_id, now)
         THEN /\ resp' = ResolveResp(s, ticket_id, "suppressed", "admin_dashboard")
              /\ UNCHANGED <<commands, sessions, audit>>
       ELSE /\ commands' = [exists |-> TRUE,
                            text |-> ResolveCommand(ticket_id, sess.admin_username)]
            /\ sessions' = [sessions EXCEPT ![s] = sess2]
            /\ audit' = log_admin_activity(audit, sess2, T_RESOLVE_TICKET,
                           Str(ticket_id),
                           <<"T","i","c","k","e","t"," ","#">> \o Str(ticket_id)
                           \o <<" ","r","e","s","o","l","v","e","d">>, now, ok)
            /\ resp' = ResolveResp(s, ticket_id, "emitted", "admin_dashboard")

\* as resolve_ticket, but a suppressed request restarts the 60 seconds
resolve_ticket_restarts_window(s, ticket_id, ok) ==
    LET sess == sessions[s]
        sess2 == [sess EXCEPT !.resolved = @ \cup {ticket_id},
                              !.resolved_time = (ticket_id :> now) @@ @]
    IN IF ~ sess.is_admin
         THEN /\ resp' = ResolveResp(s, ticket_id, "unauthorized", "login_page")
              /\ UNCHANGED <<commands, sessions, audit>>
       ELSE IF RecentlyResolved(sess, ticket_id, now)
         THEN /\ resp' = ResolveResp(s, ticket_id, "suppressed", "admin_dashboard")
              /\ sessions' = [sessions EXCEPT ![s] = sess2]
              /\ UNCHANGED <<commands, audit>>
       ELSE /\ commands' = [exists |-> TRUE,
                            text |-> ResolveCommand(ticket_id, sess.admin_username)]
            /\ sessions' = [sessions EXCEPT ![s] = sess2]
            /\ audit' = log_admin_activity(audit, sess2, T_RESOLVE_TICKET,
                           Str(ticket_id),
                           <<"T","i","c","k","e","t"," ","#">> \o Str(ticket_id)
                           \o <<" ","r","e","s","o","l","v","e","d">>, now, ok)
            /\ resp' = ResolveResp(s, ticket_id, "emitted", "admin_dashboard")

resolve_ticket(s, ticket_id, ok) ==
    LET sess == sessions[s]
        sess2 == [sess EXCEPT !.resolved = @ \cup {ticket_id},
                              !.resolved_time = (ticket_id :> now) @@ @]
    IN IF ~ sess.is_admin
         THEN /\ resp' = ResolveResp(s, ticket_id, "unauthorized", "login_page")
              /\ UNCHANGED <<commands, sessions, audit>>
       ELSE IF RecentlyResolved(sess, ticket_id, now)
         THEN /\ resp' = ResolveResp(s, ticket_id, "suppressed", "admin_dashboard")
              /\ UNCHANGED <<commands, sessions, audit>>
       ELSE /\ commands' = [exists |-> TRUE,
                            text |-> ResolveCommand(ticket_id, sess.admin_username)]
            /\ sessions' = [sessions EXCEPT ![s] = sess2]
            /\ audit' = log_admin_activity(audit, sess2, T_RESOLVE_TICKET,
                           Str(ticket_id),
                           <<"T","i","c","k","e","t"," ","#">> \o Str(ticket_id)
                           \o <<" ","r","e","s","o","l","v","e","d">>, now, ok)
            /\ resp' = ResolveResp(s, ticket_id, "emitted", "admin_dashboard")

ResolveOf(S, ids, outcomes, room) ==
    \E s \in S, id \in ids, ok \in outcomes :
        /\ resolve_ticket(s, id, ok)
        /\ (AuditRoom(room) \/ audit' = audit)
        /\ UNCHANGED <<pending, active, resolved, now, allocated, inflight>>

(***************************************************************************)
(* update_priority.                                                        *)
(***************************************************************************)
\* as valid_priorities, with a fifth priority
valid_priorities_with_urgent ==
    <<T_Low, T_Medium, T_High, T_Critical, <<"U","r","g","e","n","t">> >>

valid_priorities == <<T_Low, T_Medium, T_High, T_Critical>>

\* open(..., 'r') without newline='': \r\n and \r are read as \n
RECURSIVE NewlinesOf(_, _, _)
NewlinesOf(s, lo, hi) ==
    IF lo > hi THEN <<>>
    ELSE IF lo = hi
      THEN IF s[lo] = "\r" THEN <<"\n">>
           ELSE IF s[lo] = "\n" /\ lo > 1 /\ s[lo - 1] = "\r" THEN <<>>
           ELSE <<s[lo]>>
    ELSE NewlinesOf(s, lo, (lo + hi) \div 2) \o NewlinesOf(s, (lo + hi) \div 2 + 1, hi)
UniversalNewlines(s) == NewlinesOf(s, 1, Len(s))
\* the rows csv.reader yields for a file opened that way: a line break
\* inside a quoted field arrives as \n
CsvReadRows(rows) ==
    [i \in 1..Len(rows) |->
        [k \in 1..Len(rows[i]) |-> UniversalNewlines(rows[i][k])]]

PriorityResp(s, ticket_id, priority, outcome, success) ==
    [op |-> "update_priority",
     req |-> [session |-> s, ticket_id |-> ticket_id, priority |-> priority],
     out |-> [outcome |-> outcome, success |-> success]]

\* as ReadActiveForUpdate, but every non-empty row is taken for the ticket
ReadActiveForUpdate_any_row(activeF, ticket_id, priority) ==
    LET body == CsvReadRows(DataRows(activeF))
        hit == {i \in 1..Len(body) : Len(body[i]) > 6}
    IN IF ~ activeF.exists \/ activeF.rows = <<>>
         THEN [raised |-> FALSE, found |-> FALSE, rows |-> <<>>,
               old_priority |-> T_Unknown]
       ELSE [raised |-> FALSE, found |-> hit # {},
             rows |-> CsvReadRows(<<Head(activeF.rows)>>) \o
                      [i \in 1..Len(body) |->
                          IF i \in hit THEN [body[i] EXCEPT ![7] = priority]
                          ELSE body[i]],
             old_priority |-> IF hit = {} THEN T_Unknown ELSE body[SetMax(hit)][7]]

\* as ReadActiveForUpdate, but the rows of the ticket are not kept
ReadActiveForUpdate_drops_row(activeF, ticket_id, priority) ==
    LET matches(row) == Len(row) > 0 /\ Strip(row[1]) = Str(ticket_id)
        body == CsvReadRows(DataRows(activeF))
        hit == {i \in 1..Len(body) : matches(body[i])}
    IN IF ~ activeF.exists \/ activeF.rows = <<>>
         THEN [raised |-> FALSE, found |-> FALSE, rows |-> <<>>,
               old_priority |-> T_Unknown]
       ELSE [raised |-> FALSE, found |-> hit # {},
             rows |-> CsvReadRows(<<Head(activeF.rows)>>) \o
                      SelectSeq(body, LAMBDA row : ~ matches(row)),
             old_priority |-> IF hit = {} THEN T_Unknown ELSE body[SetMax(hit)][7]]

\* lines 1069-1084: what the read of the active file leaves in rows, found
\* and old_priority, the file being read in text mode; raised when
\* next(reader) finds no header or the assignment row[6] = priority falls
\* outside a short row
ReadActiveForUpdate(activeF, ticket_id, priority) ==
    LET matches(row) == Len(row) > 0 /\ Strip(row[1]) = Str(ticket_id)
        body == CsvReadRows(DataRows(activeF))
        hit == {i \in 1..Len(body) : matches(body[i])}
        short == {i \in hit : Len(body[i]) <= 6}
        last == body[SetMax(hit)]
    IN IF ~ activeF.exists
         THEN [raised |-> FALSE, found |-> FALSE, rows |-> <<>>,
               old_priority |-> T_Unknown]
       ELSE IF activeF.rows = <<>> \/ short # {}
         THEN [raised |-> TRUE, found |-> FALSE, rows |-> <<>>,
               old_priority |-> T_Unknown]
       ELSE [raised |-> FALSE, found |-> hit # {},
             rows |-> CsvReadRows(<<Head(activeF.rows)>>) \o
                      [i \in 1..Len(body) |->
                          IF i \in hit THEN [body[i] EXCEPT ![7] = priority]
                          ELSE body[i]],
             old_priority |-> IF hit = {} THEN T_Unknown ELSE last[7]]

\* lines 1093-1094: the audit entry of a priority change
LogPriorityChange(auditF, sess, ticket_id, old_priority, priority, t, ok) ==
    log_admin_activity(auditF, sess, T_CHANGE_PRIORITY, Str(ticket_id),
        <<"P","r","i","o","r","i","t","y"," ","c","h","a","n","g","e","d",":"," ">>
        \o old_priority \o <<" ","-",">"," ">> \o priority, t, ok)

\* as update_priority, but a write to the log that fails undoes the rewrite
\* and fails the request
update_priority_rolls_back(s, ticket_id, priority, ok) ==
    LET sess == sessions[s]
        r == ReadActiveForUpdate(active, ticket_id, priority)
    IN IF ~ sess.is_admin
         THEN /\ resp' = PriorityResp(s, ticket_id, priority, "Unauthorized", FALSE)
              /\ UNCHANGED <<active, audit>>
       ELSE IF ~ \E i \in 1..Len(valid_priorities) : valid_priorities[i] = priority
         THEN /\ resp' = PriorityResp(s, ticket_id, priority, "Invalid priority", FALSE)
              /\ UNCHANGED <<active, audit>>
       ELSE IF r.raised \/ (r.found /\ ~ ok)
         THEN /\ resp' = PriorityResp(s, ticket_id, priority, "exception", FALSE)
              /\ UNCHANGED <<active, audit>>
       ELSE IF r.found
         THEN /\ active' = FileOf(r.rows)
              /\ audit' = LogPriorityChange(audit, sess, ticket_id,
                                            r.old_priority, priority, now, ok)
              /\ resp' = PriorityResp(s, ticket_id, priority, "updated", TRUE)
       ELSE /\ resp' = PriorityResp(s, ticket_id, priority, "Ticket not found", FALSE)
            /\ UNCHANGED <<active, audit>>

\* the whole handler, served without interruption
update_priority(s, ticket_id, priority, ok) ==
    LET sess == sessions[s]
        r == ReadActiveForUpdate(active, ticket_id, priority)
    IN IF ~ sess.is_admin
         THEN /\ resp' = PriorityResp(s, ticket_id, priority, "Unauthorized", FALSE)
              /\ UNCHANGED <<active, audit>>
       ELSE IF ~ \E i \in 1..Len(valid_priorities) : valid_priorities[i] = priority
         THEN /\ resp' = PriorityResp(s, ticket_id, priority, "Invalid priority", FALSE)
              /\ UNCHANGED <<active, audit>>
       ELSE IF r.raised
         THEN /\ resp' = PriorityResp(s, ticket_id, priority, "exception", FALSE)
              /\ UNCHANGED <<active, audit>>
       ELSE IF r.found
         THEN /\ active' = FileOf(r.rows)
              /\ audit' = LogPriorityChange(audit, sess, ticket_id,
                                            r.old_priority, priority, now, ok)
              /\ resp' = PriorityResp(s, ticket_id, priority, "updated", TRUE)
       ELSE /\ resp' = PriorityResp(s, ticket_id, priority, "Ticket not found", FALSE)
            /\ UNCHANGED <<active, audit>>

UpdatePriorityOf(S, ids, priorities, outcomes, room) ==
    \E s \in S, id \in ids, priority \in priorities, ok \in outcomes :
        /\ update_priority(s, id, priority, ok)
        /\ (AuditRoom(room) \/ audit' = audit)
        /\ UNCHANGED <<pending, resolved, commands, sessions, now, allocated, inflight>>

(***************************************************************************)
(* The system: every handler is served without interruption.               *)
(***************************************************************************)
Idle == [pc |-> "idle"]

\* the files as init_db leaves them on a fresh installation, no session,
\* no request in flight
Init ==
    /\ pending = NoFile
    /\ active = NoFile
    /\ resolved = FileOf(<<ResolvedHeader>>)
    /\ audit = FileOf(<<AuditHeader>>)
    /\ commands = [exists |-> FALSE, text |-> <<>>]
    /\ sessions = [s \in SessionIds |-> EmptySession]
    /\ now = 0
    /\ resp = [op |-> "init", req |-> <<>>, out |-> <<>>]
    /\ allocated = <<>>
    /\ inflight = [t \in Threads |-> Idle]

(***************************************************************************)
(* The ids of the tickets in each partition.                               *)
(***************************************************************************)
QueueIds(file) == IdsOf(IF file.exists THEN file.rows ELSE <<>>)
StoreIds(file) == IdsOf(DataRows(file))
PendingIds == QueueIds(pending)
ActiveIds == StoreIds(active)
ResolvedIds == StoreIds(resolved)
\* the number of rows of the sequence that carry the id
RowsWithId(rows, id) ==
    Cardinality({i \in 1..Len(rows) :
                   rows[i] # <<>> /\ IsInt(rows[i][1]) /\ ParseInt(rows[i][1]) = id})
\* the number of rows, over the three partitions, that carry the id
Copies(id) ==
    RowsWithId(IF pending.exists THEN pending.rows ELSE <<>>, id)
    + RowsWithId(DataRows(active), id) + RowsWithId(DataRows(resolved), id)

\* one admin browser; every write to the log succeeds
GoodLogin == {<<DefaultAdmins[1][1], DefaultAdmins[1][2]>>}
Submit == SubmitOf(Forms)
Login == LoginOf({"s1"}, GoodLogin, {TRUE}, MaxAudit)
Resolve == ResolveOf({"s1"}, TicketIds, {TRUE}, MaxAudit)
UpdatePriority == UpdatePriorityOf({"s1"}, TicketIds, {T_High}, {TRUE}, MaxAudit)

Next ==
    \/ Submit
    \/ Login
    \/ Resolve
    \/ UpdatePriority
    \/ WorkerPromote
    \/ WorkerDrain

Spec == Init /\ [][Next]_vars

(***************************************************************************)
(* Properties of the system served one request at a time (Spec).           *)
(***************************************************************************)
IsPrefixOf(a, b) == Len(a) <= Len(b) /\ SubSeq(b, 1, Len(a)) = a

\* C1: every id Submit allocates is at least 1001 and strictly greater than
\* every id allocated before it, whatever moves of tickets between the
\* partitions happened in between; the id in the response is the id allocated
C1_IdsStrictlyIncreasing ==
    /\ \A i \in 1..Len(allocated) : allocated[i] >= 1001
    /\ \A i \in 1..Len(allocated), j \in 1..Len(allocated) :
           i < j => allocated[i] < allocated[j]
    /\ (resp.op = "submit_ticket" /\ resp.out.outcome = "created")
         => /\ allocated # <<>>
            /\ resp.out.new_id = Some(Str(allocated[Len(allocated)]))

\* a second ticket was created after an earlier one had reached resolved
C1_Witness ==
    /\ resp.op = "submit_ticket" /\ resp.out.outcome = "created"
    /\ Len(allocated) >= 2
    /\ allocated[1] \in ResolvedIds

\* the active rows that match the form as the duplicate rule states it: the
\* same email up to case, and the same first 30 characters of the
\* description, both lowercased and trimmed
MatchingActiveRows(form) ==
    LET f == SubmitFields(form, Clock(now))
        rows == DataRows(active)
    IN IF ~ f.ok THEN {}
       ELSE {i \in 1..Len(rows) :
               /\ Len(rows[i]) >= 6
               /\ Lower(Strip(rows[i][3])) = Lower(Strip(f.row[2]))
               /\ Prefix(Strip(Lower(rows[i][6])), 30)
                    = Prefix(Strip(Lower(f.row[5])), 30)}

\* C3: a Submit of a valid form that matches an active ticket returns the
\* id of a matching ticket, allocates no id and appends nothing to pending
C3_DuplicateSuppressed ==
    [][(resp'.op = "submit_ticket" /\ MatchingActiveRows(resp'.req) # {})
         => /\ resp'.out.outcome = "duplicate"
            /\ \E i \in MatchingActiveRows(resp'.req) :
                   resp'.out.new_id = Some(DataRows(active)[i][1])
            /\ pending' = pending
            /\ allocated' = allocated]_vars

\* C6: a priority update for an id without a row in active writes no audit
\* entry and leaves every partition as it was, and when the request comes
\* from an admin session with a valid priority it reports "Ticket not found"
C6_PriorityUpdateNotFound ==
    [][(resp'.op = "update_priority" /\ resp'.req.ticket_id \notin ActiveIds)
         => /\ audit' = audit
            /\ pending' = pending /\ active' = active /\ resolved' = resolved
            /\ (sessions[resp'.req.session].is_admin
                /\ resp'.req.priority \in {T_Low, T_Medium, T_High, T_Critical})
                 => (resp'.out.outcome = "Ticket not found"
                     /\ resp'.out.success = FALSE)]_vars

\* an admin's update for a ticket that is in resolved only was answered
C6_Witness ==
    /\ resp.op = "update_priority"
    /\ resp.out.outcome = "Ticket not found"
    /\ resp.req.ticket_id \in ResolvedIds
    /\ resp.req.ticket_id \notin ActiveIds

\* C8: a ticket appears first in pending, leaves pending only for active and
\* active only for resolved, and the rows of resolved are never changed or
\* removed
C8_ForwardOnly ==
    [][LET P == PendingIds
           A == ActiveIds
           R == ResolvedIds
           P2 == QueueIds(pending')
           A2 == StoreIds(active')
           R2 == StoreIds(resolved')
       IN /\ (P2 \cup A2 \cup R2) \ (P \cup A \cup R) \subseteq P2 \ (A2 \cup R2)
          /\ P \subseteq P2 \cup A2
          /\ A \subseteq A2 \cup R2
          /\ R \subseteq R2
          /\ resolved'.exists
          /\ IsPrefixOf(resolved.rows, resolved'.rows)]_vars

\* a ticket is in resolved while requests are still served
C8_Witness ==
    /\ ResolvedIds # {}
    /\ resp.op \in {"submit_ticket", "update_priority", "resolve_ticket"}

\* C10: a resolve request from an admin session for an id without a row in
\* active emits no command and writes no audit entry
C10_ResolveOfMissingTicket ==
    [][(/\ resp'.op = "resolve_ticket"
        /\ sessions[resp'.req.session].is_admin
        /\ resp'.req.ticket_id \notin ActiveIds)
         => /\ resp'.out.branch # "emitted"
            /\ commands' = commands
            /\ audit' = audit]_vars

(***************************************************************************)
(* Status lookups against the store (SpecStatus).                          *)
(***************************************************************************)
CheckStatus == CheckStatusOf(TicketIds, StatusEmails)
NextStatus == Submit \/ WorkerPromote \/ CheckStatus
SpecStatus == Init /\ [][NextStatus]_vars

\* the rows of the active partition that carry the id of the request
ActiveRowsOfId(id_text) ==
    {i \in 1..Len(DataRows(active)) :
        Len(DataRows(active)[i]) >= 6 /\ Strip(DataRows(active)[i][1]) = id_text}

\* the lookup asked for a ticket of the active partition under another email
WrongEmailLookup ==
    /\ resp.op = "check_status"
    /\ ActiveRowsOfId(resp.req.ticket_id) # {}
    /\ \A i \in ActiveRowsOfId(resp.req.ticket_id) :
           Lower(Strip(DataRows(active)[i][3])) # Lower(Strip(resp.req.email))

\* the other contents a ticket could have: every field but the id and the
\* email
AltFields ==
    { <<<<"Z","e","d">>, <<"g","p","u">>, <<"2","0","2","5","-","0","1","-","0","1">>,
        <<"n","o"," ","f","a","n">>, T_Critical, <<"7">>>>,
      <<<<"Y">>, <<"r","a","m">>, <<"2","0","2","3","-","0","2","-","0","2">>,
        <<"b","e","e","p","s">>, T_Low, <<>>>> }

\* the active partition with the other fields of the ticket replaced
ActiveWithFields(id_text, alt) ==
    FileOf(<<Head(active.rows)>> \o
           [i \in 1..Len(DataRows(active)) |->
               IF i \in ActiveRowsOfId(id_text)
               THEN <<DataRows(active)[i][1], alt[1], DataRows(active)[i][3],
                      alt[2], alt[3], alt[4], alt[5], alt[6]>>
               ELSE DataRows(active)[i]])

\* C4: a status lookup for an id of the active partition under an email that
\* does not match answers with the Unauthorized error alone, every field of
\* the ticket left out, and the answer is the same whatever the other fields
\* of that ticket hold
C4_UnauthorizedRevealsNothing ==
    WrongEmailLookup
      => /\ resp.out = StatusError("Ticket ID exists but Email does not match")
         /\ \A alt \in AltFields :
                check_status(ActiveWithFields(resp.req.ticket_id, alt), resolved,
                             resp.req.ticket_id, resp.req.email, now) = resp.out

\* such a lookup was answered while another ticket was in the store too
C4_Witness ==
    /\ WrongEmailLookup
    /\ resp.out.error # None
    /\ Len(DataRows(active)) >= 2
(***************************************************************************)
(* Two admin browsers and the clock (SpecAdmin).                           *)
(***************************************************************************)
\* one form; each browser logs in once, with an account of its own
SubmitOne == SubmitOf({form \in Forms : form.email = E_bo})
LoginFirst ==
    /\ ~ sessions["s1"].is_admin
    /\ LoginOf({"s1"}, {<<DefaultAdmins[1][1], DefaultAdmins[1][2]>>}, {TRUE},
               MaxAudit + 2)
LoginSecond ==
    /\ ~ sessions["s2"].is_admin
    /\ LoginOf({"s2"}, {<<DefaultAdmins[2][1], DefaultAdmins[2][2]>>}, {TRUE},
               MaxAudit + 2)
LoginAny == LoginFirst \/ LoginSecond
ResolveAny == ResolveOf(SessionIds, {1001}, {TRUE}, MaxAudit + 2)
NextAdmin ==
    \/ SubmitOne \/ WorkerPromote \/ LoginAny \/ ResolveAny \/ WorkerDrain \/ Tick
SpecAdmin == Init /\ [][NextAdmin]_vars

\* some session was answered "emitted" for the ticket less than 60 seconds
\* ago (no session is cleared under SpecAdmin, so the sessions remember
\* every resolve request that was not suppressed)
ResolvedLately(ticket_id) ==
    \E s \in SessionIds : RecentlyResolved(sessions[s], ticket_id, now)

\* C5: a resolve request from an admin session for a ticket some session
\* resolved less than 60 seconds before reports success, emits no second
\* command and writes no second RESOLVE_TICKET audit entry
C5_CooldownAcrossSessions ==
    [][(/\ resp'.op = "resolve_ticket"
        /\ sessions[resp'.req.session].is_admin
        /\ ResolvedLately(resp'.req.ticket_id))
         => /\ resp'.out.redirect = "admin_dashboard"
            /\ commands' = commands
            /\ audit' = audit]_vars
(***************************************************************************)
(* Requests served by concurrent threads: a handler's reads of the files   *)
(* and its write are separate steps, and other threads and the worker run  *)
(* in between.                                                             *)
(***************************************************************************)
\* the appends that threads have scanned for and not yet written
Scanned == {t \in Threads : inflight[t].pc = "append"}

\* lines 779-830 on thread t: validation, duplicate detection, the scan for
\* the next id
SubmitScan(t, form) ==
    /\ inflight[t].pc = "idle"
    /\ \E f \in {SubmitFields(form, Clock(now))} :
         IF ~ f.ok
           THEN /\ resp' = SubmitResp(form, "error", f.error, None, 0, "")
                /\ UNCHANGED inflight
         ELSE \E d \in {check_duplicate_ticket(active, f.row[2], f.row[5])} :
           IF d.dup
             THEN /\ resp' = SubmitResp(form, "duplicate", "", d.id, 0, "")
                  /\ UNCHANGED inflight
           ELSE /\ Len(allocated) + Cardinality(Scanned) < MaxTickets
                /\ inflight' = [inflight EXCEPT ![t] =
                      [pc |-> "append", form |-> form, row |-> f.row, note |-> f.note,
                       new_ticket_id |-> get_next_ticket_id(active, pending, resolved)]]
                /\ resp' = [op |-> "submit_scan", req |-> form, out |-> <<>>]
    /\ UNCHANGED <<pending, active, resolved, audit, commands, sessions, now,
                   allocated>>

\* lines 832-859 on thread t: the append to pending and the answer
SubmitAppend(t) ==
    LET c == inflight[t]
        pending2 == AppendPending(pending, c.new_ticket_id, c.row)
    IN /\ c.pc = "append"
       /\ pending' = pending2
       /\ allocated' = Append(allocated, c.new_ticket_id)
       /\ resp' = SubmitResp(c.form, "created", "", Some(Str(c.new_ticket_id)),
                             queue_size(active, pending2), c.note)
       /\ inflight' = [inflight EXCEPT ![t] = Idle]
       /\ UNCHANGED <<active, resolved, audit, commands, sessions, now>>

SubmitScanAny == \E t \in Threads, form \in Forms : SubmitScan(t, form)
SubmitAppendAny == \E t \in Threads : SubmitAppend(t)
NextSubmitRace == SubmitScanAny \/ SubmitAppendAny \/ WorkerPromote
SpecSubmitRace == Init /\ [][NextSubmitRace]_vars

\* C2: two Submit requests never receive the same id, and no two rows of
\* pending, active and resolved carry the same id
C2_UniqueIds ==
    /\ \A i \in 1..Len(allocated), j \in 1..Len(allocated) :
           i # j => allocated[i] # allocated[j]
    /\ \A id \in TicketIds : Copies(id) <= 1

\* lines 1057-1084 on thread t: the guards and the read of the whole active
\* file; the rows read, the priority already replaced, wait to be written
PriorityRead(t, s, ticket_id, priority) ==
    LET sess == sessions[s]
        r == ReadActiveForUpdate(active, ticket_id, priority)
        answer(outcome) ==
            /\ resp' = PriorityResp(s, ticket_id, priority, outcome, FALSE)
            /\ UNCHANGED inflight
    IN /\ inflight[t].pc = "idle"
       /\ IF ~ sess.is_admin THEN answer("Unauthorized")
          ELSE IF ~ \E i \in 1..Len(valid_priorities) : valid_priorities[i] = priority
            THEN answer("Invalid priority")
          ELSE IF r.raised THEN answer("exception")
          ELSE IF ~ r.found THEN answer("Ticket not found")
          ELSE /\ inflight' = [inflight EXCEPT ![t] =
                     [pc |-> "write", session |-> s, ticket_id |-> ticket_id,
                      priority |-> priority, rows |-> r.rows,
                      old_priority |-> r.old_priority]]
               /\ resp' = [op |-> "priority_read",
                           req |-> [session |-> s, ticket_id |-> ticket_id,
                                    priority |-> priority],
                           out |-> <<>>]
       /\ UNCHANGED <<pending, active, resolved, audit, commands, sessions, now,
                      allocated>>

\* lines 1086-1096 on thread t: the rows read are written over the active
\* file, the change is logged
PriorityWrite(t, ok) ==
    LET c == inflight[t]
    IN /\ c.pc = "write"
       /\ active' = FileOf(c.rows)
       /\ audit' = LogPriorityChange(audit, sessions[c.session], c.ticket_id,
                                     c.old_priority, c.priority, now, ok)
       /\ resp' = PriorityResp(c.session, c.ticket_id, c.priority, "updated", TRUE)
       /\ inflight' = [inflight EXCEPT ![t] = Idle]
       /\ UNCHANGED <<pending, resolved, commands, sessions, now, allocated>>

\* one admin browser whose priority updates run on thread 1 while the worker
\* moves tickets; every Submit is served without interruption
PriorityReadAny ==
    \E id \in TicketIds : AuditRoom(MaxAudit) /\ PriorityRead(1, "s1", id, T_High)
PriorityWriteAny == PriorityWrite(1, TRUE)
NextUpdateRace ==
    \/ Submit \/ WorkerPromote \/ Login \/ Resolve \/ WorkerDrain
    \/ PriorityReadAny \/ PriorityWriteAny
SpecUpdateRace == Init /\ [][NextUpdateRace]_vars

\* C7: every ticket id that was allocated is in exactly one of pending,
\* active and resolved
C7_ExactlyOnePartition ==
    \A i \in 1..Len(allocated) : Copies(allocated[i]) = 1

(***************************************************************************)
(* The command channel under a fair worker (SpecLive): the worker does not *)
(* leave a pending ticket or a command on the channel unattended forever.  *)
(***************************************************************************)
ResolveMore == ResolveOf({"s1"}, {1001, 1002}, {TRUE}, MaxAudit + 1)
NextLive == SubmitOne \/ WorkerPromote \/ Login \/ ResolveMore \/ WorkerDrain
SpecLive ==
    /\ Init /\ [][NextLive]_vars
    /\ WF_vars(WorkerPromote) /\ WF_vars(WorkerDrain)

\* the last request was a resolve request for the ticket that was not
\* suppressed
Emitted(id) ==
    /\ resp.op = "resolve_ticket"
    /\ resp.out.branch = "emitted"
    /\ resp.req.ticket_id = id

\* C9: a resolve request that is not suppressed leaves the instruction
\* RESOLVE <ticket_id> <admin_username> on the command channel, and the
\* worker eventually consumes it: the active ticket it names reaches resolved
C9_CommandEventuallyConsumed ==
    /\ [](\A id \in TicketIds :
            Emitted(id) =>
              commands.text =
                ResolveCommand(id, sessions[resp.req.session].admin_username))
    /\ \A id \in TicketIds :
           (Emitted(id) /\ id \in ActiveIds) ~> (id \in ResolvedIds)

(***************************************************************************)
(* The admin operations of one browser that logs in and out, every write   *)
(* to the log succeeding (SpecAudit).                                      *)
(***************************************************************************)
AdminIds == {1001, 1002}
LoginAudit == LoginOf({"s1"}, GoodLogin, {TRUE}, MaxAudit + 1)
LogoutAudit == LogoutOf({"s1"}, {TRUE}, MaxAudit + 1)
ResolveAudit == ResolveOf({"s1"}, AdminIds, {TRUE}, MaxAudit + 1)
UpdatePriorityAudit ==
    UpdatePriorityOf({"s1"}, AdminIds, {T_High, T_Low}, {TRUE}, MaxAudit + 1)
NextAudit ==
    \/ SubmitOne
    \/ WorkerPromote
    \/ LoginAudit
    \/ LogoutAudit
    \/ ResolveAudit
    \/ UpdatePriorityAudit
    \/ WorkerDrain
SpecAudit == Init /\ [][NextAudit]_vars

\* the entries of the log (the rows after its header) with the action
AuditEntries(action) ==
    {i \in 2..Len(audit.rows) : audit.rows[i][4] = action}

\* C11: a resolve request or a priority update from a session that is not an
\* admin session is answered Unauthorized and changes nothing: no partition,
\* not the command channel, no session (the cooldown keys) and not the log
C11_UnauthorizedChangesNothing ==
    [][\A s \in SessionIds :
         (/\ resp'.op \in {"resolve_ticket", "update_priority"}
          /\ resp'.req.session = s
          /\ ~ sessions[s].is_admin)
         => /\ resp'.op = "resolve_ticket" =>
                 /\ resp'.out.branch = "unauthorized"
                 /\ resp'.out.redirect = "login_page"
            /\ resp'.op = "update_priority" =>
                 /\ resp'.out.outcome = "Unauthorized"
                 /\ ~ resp'.out.success
            /\ UNCHANGED <<pending, active, resolved, audit, commands, sessions>>]_vars

\* a priority update for a ticket in active, with another priority than the
\* stored one, from a browser that has logged out, has been refused
C11_Witness ==
    /\ resp.op = "update_priority"
    /\ resp.out.outcome = "Unauthorized"
    /\ ~ sessions[resp.req.session].is_admin
    /\ AuditEntries(T_LOGOUT) # {}
    /\ active.exists
    /\ \E i \in ActiveRowsWithId(active, Str(resp.req.ticket_id)) :
           active.rows[i][7] # resp.req.priority

(***************************************************************************)
(* The log when a write to it can fail and the server is restarted         *)
(* (SpecAuditFail).                                                        *)
(***************************************************************************)
\* as init_db_file, but the file is written anew at every start
init_db_file_overwrites(file, header) == FileOf(<<header>>)

\* lines 42-47 and 74-78: a file that does not exist is created with its
\* header; one that exists is left alone
init_db_file(file, header) == IF file.exists THEN file ELSE FileOf(<<header>>)

\* the server process is stopped and started again: init_db runs, the
\* requests in flight are gone, and the cookies of the browsers, signed with
\* the secret key of the old process (line 18), no longer carry a session
Restart ==
    /\ resolved' = init_db_file(resolved, ResolvedHeader)
    /\ audit' = init_db_file(audit, AuditHeader)
    /\ sessions' = [s \in SessionIds |-> EmptySession]
    /\ inflight' = [t \in Threads |-> Idle]
    /\ resp' = [op |-> "init_db", req |-> <<>>, out |-> <<>>]
    /\ UNCHANGED <<pending, active, commands, now, allocated>>

\* lines 659-672: what the caller of log_admin_activity receives when the
\* write succeeds (ok) and when it raises: the function has no return
\* statement and its except clause prints the exception and ends
LogOutcome(ok) == [returned |-> None, raised |-> FALSE]

\* line 997 of admin_logout: the call of log_admin_activity; written keeps
\* whether the entry reached the log
LogoutRecord(t, s, ok) ==
    /\ inflight[t] = Idle
    /\ audit' = log_admin_activity(audit, sessions[s], T_LOGOUT, <<>>,
                   <<"A","d","m","i","n"," ","l","o","g","g","e","d"," ","o","u","t">>,
                   now, ok)
    /\ inflight' = [inflight EXCEPT ![t] =
                       [pc |-> "recorded", session |-> s, written |-> ok,
                        observed |-> LogOutcome(ok)]]
    /\ resp' = [op |-> "admin_logout_record", req |-> [session |-> s], out |-> <<>>]
    /\ UNCHANGED <<pending, active, resolved, commands, sessions, now, allocated>>

\* lines 1000-1009 of admin_logout: the session is cleared
LogoutFinish(t) ==
    /\ inflight[t] # Idle /\ inflight[t].pc = "recorded"
    /\ sessions' = [sessions EXCEPT ![inflight[t].session] = EmptySession]
    /\ inflight' = [inflight EXCEPT ![t] = Idle]
    /\ resp' = [op |-> "admin_logout", req |-> [session |-> inflight[t].session],
                out |-> [redirect |-> "login_page"]]
    /\ UNCHANGED <<pending, active, resolved, audit, commands, now, allocated>>

LoginFail == LoginOf({"s1"}, GoodLogin, BOOLEAN, MaxAudit)
LogoutRecordFail ==
    \E ok \in BOOLEAN :
        /\ LogoutRecord(1, "s1", ok)
        /\ (AuditRoom(MaxAudit) \/ audit' = audit)
LogoutFinishFail == LogoutFinish(1)
ResolveFail == ResolveOf({"s1"}, {1001}, BOOLEAN, MaxAudit)
UpdatePriorityFail == UpdatePriorityOf({"s1"}, {1001}, {T_High}, BOOLEAN, MaxAudit)
NextAuditFail ==
    \/ SubmitOne
    \/ WorkerPromote
    \/ LoginFail
    \/ LogoutRecordFail
    \/ LogoutFinishFail
    \/ ResolveFail
    \/ UpdatePriorityFail
    \/ Restart
SpecAuditFail == Init /\ [][NextAuditFail]_vars

\* C12: the log is append-only: at every step (a login, a logout, a resolve
\* request, a priority update, a start of the server, with the write to the
\* log succeeding or failing) the log stays in place and its earlier rows are
\* a prefix of its later rows
C12_AuditAppendOnly ==
    [][/\ audit'.exists
       /\ IsPrefixOf(audit.rows, audit'.rows)]_vars

\* the server has been started again over a log that holds a login and a
\* priority change, and both entries are still there
C12_Witness ==
    /\ resp.op = "init_db"
    /\ AuditEntries(T_LOGIN) # {}
    /\ AuditEntries(T_CHANGE_PRIORITY) # {}

(***************************************************************************)
(* The entries of the log, every write to it succeeding (SpecAudit).       *)
(***************************************************************************)
\* the details of a CHANGE_PRIORITY entry
PriorityDetails(old_priority, priority) ==
    <<"P","r","i","o","r","i","t","y"," ","c","h","a","n","g","e","d",":"," ">>
    \o old_priority \o <<" ","-",">"," ">> \o priority

\* the step adds one entry to the log, after the entries it held, with the
\* action and the ticket id
AppendsOneEntry(action, id_text) ==
    /\ Len(audit'.rows) = Len(audit.rows) + 1
    /\ SubSeq(audit'.rows, 1, Len(audit.rows)) = audit.rows
    /\ audit'.rows[Len(audit'.rows)][4] = action
    /\ audit'.rows[Len(audit'.rows)][5] = id_text

\* C13: when the writes to the log succeed, a priority update that succeeds
\* appends exactly one CHANGE_PRIORITY entry with the ticket id and the old
\* and the new priority, and a resolve request that is not suppressed
\* appends exactly one RESOLVE_TICKET entry with the ticket id
C13_MutationsAuditedOnce ==
    [][/\ (resp'.op = "update_priority" /\ resp'.out.success) =>
             /\ AppendsOneEntry(T_CHANGE_PRIORITY, Str(resp'.req.ticket_id))
             /\ \E i \in ActiveRowsWithId(active, Str(resp'.req.ticket_id)) :
                    audit'.rows[Len(audit'.rows)][6] =
                        PriorityDetails(active.rows[i][7], resp'.req.priority)
       /\ (resp'.op = "resolve_ticket" /\ resp'.out.branch = "emitted") =>
             AppendsOneEntry(T_RESOLVE_TICKET, Str(resp'.req.ticket_id))]_vars

\* the priority of a ticket has been changed from High to Low, and the last
\* entry of the log says so
C13_Witness ==
    /\ resp.op = "update_priority"
    /\ resp.out.success
    /\ resp.req.priority = T_Low
    /\ audit.rows[Len(audit.rows)][4] = T_CHANGE_PRIORITY
    /\ audit.rows[Len(audit.rows)][5] = Str(resp.req.ticket_id)
    /\ audit.rows[Len(audit.rows)][6] = PriorityDetails(T_High, T_Low)

\* C14: a write to the log that fails neither blocks nor undoes the
\* operation: a priority update by an admin, with a valid priority, of a
\* ticket in active leaves the ticket with the new priority and answers
\* success, and a resolve request by an admin that is not suppressed leaves
\* its command on the channel and answers with the dashboard, whether the
\* entry has reached the log or not
C14_AuditFailureDoesNotBlock ==
    [][/\ \A s \in SessionIds :
            (/\ resp'.op = "update_priority"
             /\ resp'.req.session = s
             /\ sessions[s].is_admin
             /\ \E k \in 1..Len(valid_priorities) : valid_priorities[k] = resp'.req.priority
             /\ active.exists
             /\ ActiveRowsWithId(active, Str(resp'.req.ticket_id)) # {})
            => /\ resp'.out.success
               /\ active'.exists
               /\ ActiveRowsWithId(active', Str(resp'.req.ticket_id)) # {}
               /\ \A i \in ActiveRowsWithId(active', Str(resp'.req.ticket_id)) :
                      active'.rows[i][7] = resp'.req.priority
       /\ \A s \in SessionIds :
            (/\ resp'.op = "resolve_ticket"
             /\ resp'.req.session = s
             /\ sessions[s].is_admin
             /\ ~ RecentlyResolved(sessions[s], resp'.req.ticket_id, now))
            => /\ resp'.out.branch = "emitted"
               /\ resp'.out.redirect = "admin_dashboard"
               /\ commands'.exists
               /\ commands'.text =
                      ResolveCommand(resp'.req.ticket_id, sessions[s].admin_username)]_vars

\* a priority update has succeeded and the ticket carries the new priority,
\* although no CHANGE_PRIORITY entry has reached the log
C14_Witness ==
    /\ resp.op = "update_priority"
    /\ resp.out.success
    /\ AuditEntries(T_CHANGE_PRIORITY) = {}
    /\ \E i \in ActiveRowsWithId(active, Str(resp.req.ticket_id)) :
           active.rows[i][7] = resp.req.priority

\* C15: recording never fails silently: when the entry has not reached the
\* log, what the caller of log_admin_activity receives differs from what it
\* receives after a successful write
C15_AuditFailureReported ==
    \A t \in Threads :
        (inflight[t].pc = "recorded" /\ ~ inflight[t].written)
        => inflight[t].observed # LogOutcome(TRUE)

(***************************************************************************)
(* The rows Submit stores (SpecStore): the text csv.writer puts in         *)
(* pending_tickets.csv and the rows csv.reader makes of it.                *)
(***************************************************************************)
\* csv.writer with QUOTE_MINIMAL: a field holding the delimiter, the quote
\* character or a line break is put in quotes, its quotes doubled
CsvSpecial == {",", "\"", "\r", "\n"}
CsvField(field) ==
    IF \E i \in 1..Len(field) : field[i] \in CsvSpecial
    THEN <<"\"">> \o ReplaceChar(field, "\"", <<"\"", "\"">>) \o <<"\"">>
    ELSE field
RECURSIVE CsvJoin(_)
CsvJoin(fields) ==
    IF fields = <<>> THEN <<>>
    ELSE IF Len(fields) = 1 THEN CsvField(fields[1])
    ELSE CsvField(Head(fields)) \o <<",">> \o CsvJoin(Tail(fields))
\* line 835: writerow to a file opened with newline=''
CsvWriteRow(fields) == CsvJoin(fields) \o <<"\r", "\n">>

\* csv.reader: what one character c makes of the parser, st.state being its
\* state, st.field and st.row what it has gathered of the current field and
\* row, st.rows the rows it has yielded
CsvAt(state, field, row, rows) ==
    [state |-> state, field |-> field, row |-> row, rows |-> rows]
CsvStep(st, c) ==
    CASE st.state \in {"start_record", "start_field"} ->
           IF c = "\n"
             THEN CsvAt("start_record", <<>>, <<>>,
                        Append(st.rows, IF st.state = "start_record" THEN <<>>
                                        ELSE Append(st.row, <<>>)))
           ELSE IF c = "\""
             THEN CsvAt("in_quoted", <<>>, st.row, st.rows)
           ELSE IF c = ","
             THEN CsvAt("start_field", <<>>, Append(st.row, <<>>), st.rows)
           ELSE CsvAt("in_field", <<c>>, st.row, st.rows)
      [] st.state = "in_field" ->
           IF c = "\n"
             THEN CsvAt("start_record", <<>>, <<>>,
                        Append(st.rows, Append(st.row, st.field)))
           ELSE IF c = ","
             THEN CsvAt("start_field", <<>>, Append(st.row, st.field), st.rows)
           ELSE CsvAt("in_field", Append(st.field, c), st.row, st.rows)
      [] st.state = "in_quoted" ->
           IF c = "\""
             THEN CsvAt("quote_in_quoted", st.field, st.row, st.rows)
           ELSE CsvAt("in_quoted", Append(st.field, c), st.row, st.rows)
      [] st.state = "quote_in_quoted" ->
           IF c = "\""
             THEN CsvAt("in_quoted", Append(st.field, c), st.row, st.rows)
           ELSE IF c = "\n"
             THEN CsvAt("start_record", <<>>, <<>>,
                        Append(st.rows, Append(st.row, st.field)))
           ELSE IF c = ","
             THEN CsvAt("start_field", <<>>, Append(st.row, st.field), st.rows)
           ELSE CsvAt("in_field", Append(st.field, c), st.row, st.rows)
\* the parser after the characters lo..hi of the text, taken in order from st
RECURSIVE CsvParse(_, _, _, _)
CsvParse(text, lo, hi, st) ==
    IF lo > hi THEN st
    ELSE IF lo = hi THEN CsvStep(st, text[lo])
    ELSE CHOOSE after \in
             {CsvParse(text, (lo + hi) \div 2 + 1, hi, half) :
                 half \in {CsvParse(text, lo, (lo + hi) \div 2, st)}} : TRUE

\* lines 572-575: the rows csv.reader yields for the text of the file
CsvReadText(text) ==
    CHOOSE rows \in
        {IF st.state = "start_record" THEN st.rows
         ELSE Append(st.rows, Append(st.row, st.field)) :
            st \in {CsvParse(read, 1, Len(read), CsvAt("start_record", <<>>, <<>>, <<>>)) :
                       read \in {UniversalNewlines(text)}}} : TRUE


SubmitStore == SubmitOf(StoreForms)
NextStore == SubmitStore \/ WorkerPromote
SpecStore == Init /\ [][NextStore]_vars

\* the last request was a Submit that stored a row
Stored == resp.op = "submit_ticket" /\ resp.out.outcome = "created"
\* the row it stored: the row that carries the id it answered with
StoredRow ==
    LET rows == (IF pending.exists THEN pending.rows ELSE <<>>)
        i == CHOOSE k \in 1..Len(rows) : <<rows[k][1]>> = resp.out.new_id
    IN rows[i]

\* C16: the description of every row Submit appends to pending holds no
\* comma, each comma of the input having become a semicolon, and the fields
\* read back from the text written for the row are the fields written
C16_StoredRowRoundTrip ==
    Stored =>
        /\ \A k \in 1..Len(StoredRow[6]) : StoredRow[6][k] # ","
        /\ StoredRow[6] = ReplaceChar(Sanitised(resp.req).description, ",", <<";">>)
        /\ CsvReadText(CsvWriteRow(StoredRow)) = <<StoredRow>>


\* C17: the email of every row Submit stores is the email of the form,
\* trimmed and in lower case
C17_StoredEmailNormalized ==
    Stored => StoredRow[3] = Lower(Strip(resp.req.email))


\* the catalog keys
CatalogKeys == {VALID_PRODUCTS[i] : i \in 1..Len(VALID_PRODUCTS)}
\* the product of the form as the validator compares it
ProductAsked == Strip(Lower(Sanitised(resp.req).product))

\* C18: the product of every row Submit stores is a key of the catalog: the
\* trimmed, lowercased input when that is a key, otherwise a key within edit
\* distance 2 of it, and never the raw input; an input (of 3 to 50
\* characters) with no key that near stores nothing
C18_StoredProductIsCatalogKey ==
    /\ Stored =>
         /\ StoredRow[4] \in CatalogKeys
         /\ ProductAsked \in CatalogKeys => StoredRow[4] = ProductAsked
         /\ ProductAsked \notin CatalogKeys =>
                levenshtein_distance(ProductAsked, StoredRow[4]) <= 2
    /\ (/\ resp.op = "submit_ticket"
        /\ \A key \in CatalogKeys : levenshtein_distance(ProductAsked, key) > 2)
       => resp.out.outcome = "error"

\* a product two edits from the key ssd has been stored as ssd
C18_Witness ==
    /\ Stored
    /\ ProductAsked \notin CatalogKeys
    /\ levenshtein_distance(ProductAsked, <<"s","s","d">>) = 2
    /\ StoredRow[4] = <<"s","s","d">>

(***************************************************************************)
(* A customer who submits the same complaint again while the first ticket  *)
(* moves through the partitions (SpecReopen).                              *)
(***************************************************************************)
SubmitAgain ==
    SubmitOf({form \in Forms : form.email = E_al /\ form.description = D_slow_today})
NextReopen == SubmitAgain \/ WorkerPromote \/ Login \/ ResolveMore \/ WorkerDrain
SpecReopen == Init /\ [][NextReopen]_vars

\* the active rows that match the form when the first 30 characters are
\* taken before the descriptions are trimmed
SliceFirstMatchingActiveRows(form) ==
    LET f == SubmitFields(form, Clock(now))
        rows == DataRows(active)
    IN IF ~ f.ok THEN {}
       ELSE {i \in 1..Len(rows) :
               /\ Len(rows[i]) >= 6
               /\ Lower(Strip(rows[i][3])) = Lower(Strip(f.row[2]))
               /\ Strip(Prefix(Lower(rows[i][6]), 30))
                    = Strip(Prefix(Lower(f.row[5]), 30))}

\* the rows of the file that carry the email and the description of the row
SameComplaint(rows, row) ==
    {i \in 1..Len(rows) :
        Len(rows[i]) >= 6 /\ rows[i][3] = row[3] /\ rows[i][6] = row[6]}

\* C19: duplicate suppression looks at active only: a Submit of a valid form
\* that no active row matches (the same email up to case and the same first
\* 30 characters of the description, lowercased and trimmed, in whichever
\* order) allocates the next id and appends its row to pending, whatever
\* pending and resolved hold
C19_SuppressionScansActiveOnly ==
    [][(/\ resp'.op = "submit_ticket"
        /\ SubmitFields(resp'.req, Clock(now)).ok
        /\ MatchingActiveRows(resp'.req) = {}
        /\ SliceFirstMatchingActiveRows(resp'.req) = {})
       => /\ resp'.out.outcome = "created"
          /\ resp'.out.new_id = Some(Str(get_next_ticket_id(active, pending, resolved)))
          /\ allocated' = Append(allocated, get_next_ticket_id(active, pending, resolved))
          /\ pending'.exists
          /\ pending'.rows =
               Append(pending.rows,
                      <<Str(get_next_ticket_id(active, pending, resolved))>>
                      \o SubmitFields(resp'.req, Clock(now)).row)]_vars

\* the customer has opened a new ticket for a complaint whose first ticket
\* has reached resolved
C19_Witness ==
    /\ Stored
    /\ SameComplaint(DataRows(resolved), StoredRow) # {}
    /\ SameComplaint(DataRows(active), StoredRow) = {}

(***************************************************************************)
(* Status lookups while tickets move through the partitions (SpecLookup).  *)
(***************************************************************************)
SubmitLookup ==
    SubmitOf({form \in Forms : form.email \in StatusEmails
                               /\ form.description \in {D_slow_today, D_so_slow}})
CheckStatusLookup == CheckStatusOf(AdminIds, StatusEmails)
NextLookup ==
    \/ SubmitLookup
    \/ WorkerPromote
    \/ Login
    \/ ResolveMore
    \/ WorkerDrain
    \/ CheckStatusLookup
SpecLookup == Init /\ [][NextLookup]_vars

\* the rows of the partition that carry the id of the lookup, and those of
\* them that carry its email as well
LookupRows(file) ==
    {i \in 1..Len(DataRows(file)) :
        /\ Len(DataRows(file)[i]) >= 6
        /\ Strip(DataRows(file)[i][1]) = Strip(resp.req.ticket_id)}
LookupMatches(file) ==
    {i \in LookupRows(file) :
        Lower(Strip(DataRows(file)[i][3])) = Lower(Strip(resp.req.email))}

\* other contents of resolved: no file, and a file where the id of the
\* lookup is resolved under the email of the lookup or under another one
OtherResolved ==
    {NoFile} \cup
    {FileOf(<<ResolvedHeader,
              <<Strip(resp.req.ticket_id), <<"Z","e","d">>, email, <<"r","a","m">>,
                <<"2","0","2","3","-","0","2","-","0","2">>,
                <<"b","e","e","p","s">>, T_Low, <<"7">>, <<"9">>,
                <<"a","d","m","i","n">>>>>>) :
        email \in {Lower(Strip(resp.req.email)), <<"x","@","y",".","z","z">>}}

\* C20: a status lookup searches active first and resolved second: an id
\* and email matching in active give status Open; with the id not in active,
\* an id and email matching in resolved give status Resolved; an id in
\* neither, one that is only in pending included, gives not-found; an id in
\* active under another email gives Unauthorized; and with the id in active
\* the answer is the same whatever resolved holds
C20_LookupOrder ==
    resp.op = "check_status" =>
      /\ LookupMatches(active) # {} =>
            /\ resp.out.status = Some(T_Open)
            /\ resp.out.error = None
      /\ (LookupRows(active) = {} /\ LookupMatches(resolved) # {}) =>
            /\ resp.out.status = Some(T_Resolved)
            /\ resp.out.error = None
      /\ (LookupRows(active) = {} /\ LookupRows(resolved) = {}) =>
            resp.out = StatusError("Ticket ID not found in our database.")
      /\ (LookupRows(active) # {} /\ LookupMatches(active) = {}) =>
            resp.out = StatusError("Ticket ID exists but Email does not match")
      /\ LookupRows(active) # {} =>
            \A other \in OtherResolved :
                check_status(active, other, resp.req.ticket_id, resp.req.email, now)
                  = resp.out

\* a lookup has been answered Resolved while another ticket was active
C20_Witness ==
    /\ resp.op = "check_status"
    /\ resp.out.status = Some(T_Resolved)
    /\ LookupMatches(resolved) # {}
    /\ Len(DataRows(active)) >= 1

(***************************************************************************)
(* The validators as functions of their input (SpecValidate): the initial  *)
(* states hold the inputs, and each action applies a validator to the      *)
(* input of the state.                                                     *)
(***************************************************************************)
ValidatorInput(kind, text, product) ==
    [op |-> "input", req |-> [kind |-> kind, text |-> text, product |-> product],
     out |-> <<>>]

\* product names: catalog keys as they are and with blanks and capitals,
\* keys one and two edits away, names near two keys, names that are too
\* short, too long, and far from every key
ProductInputs ==
    { <<"l","a","p","t","o","p">>, <<" ","L","a","p","T","o","p"," ">>,
      <<"l","p","a","t","o","p">>, <<"l","a","p","t","o","p","x","y">>,
      <<"l","a","p","t","o","p","x","y","z">>,
      <<"s","d","d">>, <<"s","s","d","x","x">>, <<"s","d">>, <<" ","s","d"," ">>,
      <<"s","p","e","a","k","e","r","s","x">>, <<"h","e","a","d","p","h","o","n">>,
      <<"t","a","b","l","e">>, <<"r","o","m">>, <<"z","z","z","z","z","z">>,
      <<"g","r","a","p","h","i","c"," ","c","a","r","d","s">>,
      <<>>, <<" "," "," ">>,
      [i \in 1..16 |-> "a"], [i \in 1..51 |-> "a"] }

ApplyValidateProduct ==
    /\ resp.op = "input" /\ resp.req.kind = "product"
    /\ resp' = [op |-> "validate_product", req |-> resp.req,
                out |-> validate_product(resp.req.text)]
    /\ UNCHANGED <<pending, active, resolved, audit, commands, sessions, now,
                   allocated, inflight>>

\* two texts at most one edit (a character replaced, inserted or removed)
\* apart
WithinOneEdit(a, b) ==
    \/ a = b
    \/ Len(a) = Len(b) /\ Cardinality({i \in 1..Len(a) : a[i] # b[i]}) = 1
    \/ Len(a) = Len(b) + 1 /\ \E i \in 1..Len(a) : RemoveAt(a, i) = b
    \/ Len(b) = Len(a) + 1 /\ \E i \in 1..Len(b) : RemoveAt(b, i) = a
\* the texts one edit from a, the characters put in taken from b
OneEditFrom(a, b) ==
    {a} \cup {RemoveAt(a, i) : i \in 1..Len(a)}
    \cup {[a EXCEPT ![i] = b[j]] : i \in 1..Len(a), j \in 1..Len(b)}
    \cup {SubSeq(a, 1, i) \o <<b[j]>> \o SubSeq(a, i + 1, Len(a)) :
             i \in 0..Len(a), j \in 1..Len(b)}
\* the edit distance of the two texts is at most 2
WithinTwoEdits(a, b) ==
    /\ Len(a) - Len(b) \in -2..2
    /\ \E c \in OneEditFrom(a, b) : WithinOneEdit(c, b)

\* C21: validate_product accepts an exact catalog key unchanged; otherwise it
\* accepts the first key, in catalog order, within edit distance 2 of the
\* trimmed lowercased input and returns that key with a correction note; an
\* input shorter than 3 or longer than 50, or with no key that near, is
\* rejected
C21_ProductValidation ==
    resp.op = "validate_product" =>
      LET product_lower == Strip(Lower(resp.req.text))
          near == {i \in 1..Len(VALID_PRODUCTS) :
                     WithinTwoEdits(product_lower, VALID_PRODUCTS[i])}
      IN IF Len(product_lower) < 3 \/ Len(product_lower) > 50
           THEN ~ resp.out.ok
         ELSE IF \E i \in 1..Len(VALID_PRODUCTS) : VALID_PRODUCTS[i] = product_lower
           THEN /\ resp.out.ok
                /\ resp.out.product = product_lower
                /\ resp.out.note = ""
         ELSE IF near # {}
           THEN /\ resp.out.ok
                /\ resp.out.product = VALID_PRODUCTS[SetMin(near)]
                /\ resp.out.note = "auto-corrected"
         ELSE ~ resp.out.ok

\* 'lpatop' has been accepted as 'laptop', with a correction note
C21_Witness ==
    /\ resp.op = "validate_product"
    /\ resp.req.text = <<"l","p","a","t","o","p">>
    /\ resp.out.ok
    /\ resp.out.product = <<"l","a","p","t","o","p">>
    /\ resp.out.note = "auto-corrected"

\* the text of a date in a layout: the year as four digits, month and day
\* as two
DateText(fmt, y, m, d) ==
    LET part(k) == IF k = fmt.Y THEN ZeroPad(Str(y), 4)
                   ELSE IF k = fmt.m THEN ZeroPad(Str(m), 2)
                   ELSE ZeroPad(Str(d), 2)
    IN part(1) \o <<fmt.sep>> \o part(2) \o <<fmt.sep>> \o part(3)
DateYears == {1989, 1990, 2015, 2016, 2017, 2024, 2026, 2027}
DateMonths == {1, 2, 11, 12, 13}
DateDays == {1, 2, 3, 4, 5, 12, 29, 31}
\* dates in every layout, and texts no layout reads or reads unpadded
DateInputs ==
    {DateText(formats_to_try[f], y, m, d) :
        f \in 1..Len(formats_to_try), y \in DateYears, m \in DateMonths, d \in DateDays}
    \cup { <<"2","0","2","4","-","1","3","-","4","0">>,
           <<" ","3","1","-","1","2","-","2","0","2","4"," ">>,
           <<"2","0","2","4","-","1","-","5">>, <<"5","/","1","/","2","0","2","4">>,
           <<"2","0","2","4",".","0","1",".","0","5">>,
           <<"2","4","-","0","1","-","0","5">>,
           <<"2","0","2","4","-","0","1","/","0","5">>,
           <<"t","o","d","a","y">>, <<>>, <<" "," ">> }

ApplyValidatePurchaseDate ==
    /\ resp.op = "input" /\ resp.req.kind = "date"
    /\ resp' = [op |-> "validate_purchase_date", req |-> resp.req,
                out |-> validate_purchase_date(resp.req.text, Clock(now))]
    /\ UNCHANGED <<pending, active, resolved, audit, commands, sessions, now,
                   allocated, inflight>>

\* the six layouts in the order of the claim, and the fields of a layout
\* written as Y-M-D
LayoutsInOrder ==
    << <<"Y","-","M","-","D">>, <<"D","-","M","-","Y">>, <<"M","-","D","-","Y">>,
       <<"Y","/","M","/","D">>, <<"D","/","M","/","Y">>, <<"M","/","D","/","Y">> >>
LayoutFields(layout) ==
    LET at(c) == (1 + CHOOSE k \in {1, 3, 5} : layout[k] = c) \div 2
    IN [Y |-> at("Y"), m |-> at("M"), d |-> at("D"), sep |-> layout[2]]
\* the date is more than ten years before the clock: its tenth anniversary
\* (1 March for a 29 February) has passed
MoreThanTenYearsBefore(dt, clock) ==
    LET y10 == dt.year + 10
        anniversary == IF dt.month = 2 /\ dt.day = 29 /\ ~ IsLeap(y10)
                       THEN Ordinal(y10, 3, 1)
                       ELSE Ordinal(y10, dt.month, dt.day)
    IN anniversary < clock.ord \/ (anniversary = clock.ord /\ clock.secs > 0)

\* C22: validate_purchase_date reads the input with the first of the layouts
\* Y-M-D, D-M-Y, M-D-Y, Y/M/D, D/M/Y, M/D/Y that parses it; an accepted date
\* is returned as YYYY-MM-DD; an input no layout parses, a year before 1990,
\* a date after now and a date more than 10 years before now are rejected
C22_PurchaseDateValidation ==
    resp.op = "validate_purchase_date" =>
      LET ds == Strip(resp.req.text)
          clock == Clock(now)
          parsing == {i \in 1..Len(LayoutsInOrder) :
                        StrptimeOk(ds, LayoutFields(LayoutsInOrder[i]))}
          dt == Strptime(ds, LayoutFields(LayoutsInOrder[SetMin(parsing)]))
      IN IF parsing = {} THEN ~ resp.out.ok
         ELSE /\ resp.out.ok => resp.out.date = FormatDate(dt)
              /\ dt.year < 1990 => ~ resp.out.ok
              /\ Ordinal(dt.year, dt.month, dt.day) > clock.ord => ~ resp.out.ok
              /\ MoreThanTenYearsBefore(dt, clock) => ~ resp.out.ok

\* '31-12-2024' has been read as day-month-year and returned as '2024-12-31'
C22_Witness ==
    /\ resp.op = "validate_purchase_date"
    /\ resp.req.text = <<"3","1","-","1","2","-","2","0","2","4">>
    /\ resp.out.ok
    /\ resp.out.date = <<"2","0","2","4","-","1","2","-","3","1">>

\* descriptions with and without the product name and a keyword, in small
\* and capital letters, and descriptions that fail an earlier check
DescriptionInputs ==
    { <<"m","y"," ","l","a","p","t","o","p"," ","b","a","t","t","e","r","y"," ","d","i","e","s"," ","f","a","s","t">>,
      <<"x","y","z"," ","u","n","r","e","l","a","t","e","d"," ","g","a","d","g","e","t"," ","n","o","i","s","e">>,
      <<"t","h","e"," ","s","c","r","e","e","n"," ","h","a","s"," ","a"," ","p","r","o","b","l","e","m"," ","t","o","d","a","y">>,
      <<"M","y"," ","L","A","P","T","O","P"," ","b","a","t","t","e","r","y"," ","d","i","e","s"," ","f","a","s","t">>,
      <<"i","t"," ","i","s"," ","N","o","t"," ","W","o","r","k","i","n","g"," ","a","t"," ","a","l","l">>,
      <<"m","y"," ","l","a","p","t","o","p">>,
      <<"l","a","p","t","o","p","!","!","!","!","!","!","!"," ","i","s"," ","b","r","o","k","e","n"," ","n","o","w">>,
      <<"m","y"," ","h","a","r","d","-","d","r","i","v","e"," ","c","l","i","c","k","s"," ","l","o","u","d","l","y">>,
      <<"m","y"," ","h","a","r","d"," ","d","r","i","v","e"," ","c","l","i","c","k","s"," ","l","o","u","d","l","y">>,
      <<"b","a","d"," ","i","s","s","u","e","s"," ","e","v","e","r","y","w","h","e","r","e"," ","h","e","r","e">>,
      <<"b","r","k","n"," ","l","p","t","p"," ","x","y","z","w"," ","p","r","b","l"," ","l","a","p","t","o","p">>,
      <<" "," ","t","h","e"," ","p","h","o","n","e"," ","s","c","r","e","e","n"," ","i","s"," ","c","r","a","c","k","e","d"," "," ">>,
      <<"l","a","p","t","o","p"," ","b","r","o","k","e","n">>,
      <<"#","l","a","p","t","o","p","#"," ","@","@","@"," ","$","$","$"," ","%","%","%"," ","^","^","^"," ","&","&","&">> }
DescriptionProducts ==
    { <<"l","a","p","t","o","p">>, <<"p","h","o","n","e">>, <<"h","a","r","d"," ","d","r","i","v","e">>, <<>> }

ApplyValidateIssueDescription ==
    /\ resp.op = "input" /\ resp.req.kind = "description"
    /\ resp' = [op |-> "validate_issue_description", req |-> resp.req,
                out |-> validate_issue_description(resp.req.text, resp.req.product)]
    /\ UNCHANGED <<pending, active, resolved, audit, commands, sessions, now,
                   allocated, inflight>>

\* the relevance keywords of a product: no catalog file is loaded, so they
\* are the fallback keywords for every product
CatalogKeywords(product) == {fallback_keywords[k] : k \in 1..Len(fallback_keywords)}

\* C23: when a product is given, a description that passes the length,
\* word-count, vowel, gibberish, special-character and repeat checks is
\* accepted if and only if its lowercased text contains the product key or
\* one of the product's keywords; otherwise it is rejected with the
\* relevance error
C23_DescriptionRelevance ==
    (resp.op = "validate_issue_description" /\ resp.req.product # <<>>) =>
      LET description_lower == Lower(resp.req.text)
          passes == validate_issue_description(resp.req.text, <<>>).ok
          relevant ==
              \/ Contains(description_lower, resp.req.product)
              \/ \E keyword \in CatalogKeywords(resp.req.product) :
                     Contains(description_lower, keyword)
      IN /\ passes =>
            /\ resp.out.ok <=> relevant
            /\ ~ resp.out.ok =>
                 resp.out.err = "Description doesn't seem related to the product"
         /\ ~ passes => ~ resp.out.ok

\* a description naming the product without any keyword has been accepted,
\* and one with neither has been rejected
C23_Witness ==
    /\ resp.op = "validate_issue_description"
    /\ resp.req.product = <<"l","a","p","t","o","p">>
    /\ resp.req.text = <<"m","y"," ","l","a","p","t","o","p"," ","b","a","t","t","e","r","y"," ","d","i","e","s"," ","f","a","s","t">>
    /\ resp.out.ok

(***************************************************************************)
(* Priority updates of one admin on two server threads, beside the worker  *)
(* (SpecPriorityRace).                                                     *)
(***************************************************************************)
PriorityReadRace ==
    \E t \in Threads, id \in AdminIds :
        AuditRoom(MaxAudit) /\ PriorityRead(t, "s1", id, T_High)
PriorityWriteRace == \E t \in Threads : PriorityWrite(t, TRUE)
NextPriorityRace ==
    \/ SubmitOne \/ WorkerPromote \/ Login \/ ResolveMore \/ WorkerDrain
    \/ PriorityReadRace \/ PriorityWriteRace
SpecPriorityRace == Init /\ [][NextPriorityRace]_vars

\* the rows of the ticket in a file, in file order
RowsOfTicket(file, id) ==
    SelectSeq(DataRows(file), LAMBDA row : Len(row) > 0 /\ row[1] = Str(id))

\* C24: a priority update that completes while another update or the worker
\* has changed Active since its read loses nothing: the rows of every other
\* ticket are after its write what they were just before it
C24_NoLostUpdate ==
    [][\A t \in Threads :
         (inflight[t].pc = "write" /\ inflight'[t].pc = "idle") =>
             \A id \in TicketIds :
                 id # inflight[t].ticket_id =>
                     RowsOfTicket(active', id) = RowsOfTicket(active, id)]_vars

(***************************************************************************)
(* Priority updates over the rows Submit stores, descriptions with a line  *)
(* break included (SpecFrame).                                             *)
(***************************************************************************)
SubmitFrame == SubmitOf({form \in StoreForms : form.description \in {D_crlf, D_so_slow}})
UpdatePriorityFrame ==
    UpdatePriorityOf({"s1"}, AdminIds, {T_High, T_Low}, {TRUE}, MaxAudit)
NextFrame == SubmitFrame \/ WorkerPromote \/ Login \/ UpdatePriorityFrame
SpecFrame == Init /\ [][NextFrame]_vars

\* C25: a successful priority update changes only the priority column of
\* the rows whose id matches: Active keeps its header, the number and order
\* of its rows, every other column of the matching rows and every other
\* row, and pending and resolved are untouched
C25_UpdateChangesPriorityOnly ==
    [][(resp'.op = "update_priority" /\ resp'.out.outcome = "updated") =>
         /\ Len(active'.rows) = Len(active.rows)
         /\ active'.rows[1] = active.rows[1]
         /\ \A i \in 2..Len(active.rows) :
                active'.rows[i] =
                    IF /\ Len(active.rows[i]) > 0
                       /\ Strip(active.rows[i][1]) = Str(resp'.req.ticket_id)
                    THEN [active.rows[i] EXCEPT ![7] = resp'.req.priority]
                    ELSE active.rows[i]
         /\ pending' = pending
         /\ resolved' = resolved]_vars

(***************************************************************************)
(* Two admin browsers resolving two tickets while the clock runs, with     *)
(* logout (SpecCooldown).                                                  *)
(***************************************************************************)
LogoutCooldown == LogoutOf({"s1"}, {TRUE}, MaxAudit + 1)
ResolveCooldown == ResolveOf(SessionIds, AdminIds, {TRUE}, MaxAudit + 1)
NextCooldown ==
    LoginAny \/ LogoutCooldown \/ ResolveCooldown \/ WorkerDrain \/ Tick
SpecCooldown == Init /\ [][NextCooldown]_vars

\* the session holds a resolve of the ticket that was not suppressed and is
\* less than 60 seconds old
InCooldown(s, ticket_id) ==
    /\ ticket_id \in sessions[s].resolved
    /\ now - sessions[s].resolved_time[ticket_id] < 60

\* C26: the resolve cooldown is kept per admin session and per ticket id: a
\* resolve of an id less than 60 seconds after the last one of that id in
\* that session that was not suppressed emits no command and no audit entry
\* and leaves the window where it was; any other resolve by an admin (60
\* seconds or more after it, another id, another session) emits a command
\* and an audit entry and starts the window of that id in that session only
C26_CooldownPerSessionAndTicket ==
    [][(resp'.op = "resolve_ticket" /\ sessions[resp'.req.session].is_admin) =>
         LET s == resp'.req.session
             id == resp'.req.ticket_id
         IN IF InCooldown(s, id)
              THEN /\ resp'.out.branch = "suppressed"
                   /\ commands' = commands
                   /\ audit' = audit
                   /\ sessions' = sessions
            ELSE /\ resp'.out.branch = "emitted"
                 /\ commands'.text = ResolveCommand(id, sessions[s].admin_username)
                 /\ Len(audit'.rows) = Len(audit.rows) + 1
                 /\ audit'.rows[Len(audit'.rows)][4] = T_RESOLVE_TICKET
                 /\ audit'.rows[Len(audit'.rows)][5] = Str(id)
                 /\ sessions'[s].resolved_time[id] = now
                 /\ \A other \in sessions[s].resolved \ {id} :
                        sessions'[s].resolved_time[other]
                          = sessions[s].resolved_time[other]
                 /\ \A s2 \in SessionIds \ {s} : sessions'[s2] = sessions[s2]]_vars

\* a session resolved a ticket at 0 s, its repeat at 30 s was suppressed,
\* and its repeat at 60 s was answered with a new command
C26_Witness ==
    /\ now = 60
    /\ resp.op = "resolve_ticket" /\ resp.out.branch = "emitted"
    /\ \E s \in SessionIds :
         /\ resp.req.session = s
         /\ sessions[s].resolved_time[resp.req.ticket_id] = 60
         /\ Cardinality({i \in 1..Len(audit.rows) :
                           /\ audit.rows[i][4] = T_RESOLVE_TICKET
                           /\ audit.rows[i][5] = Str(resp.req.ticket_id)
                           /\ audit.rows[i][2] = sessions[s].admin_username}) = 2

(***************************************************************************)
(* Submit with forms that fail at each stage (SpecSubmitOrder).            *)
(***************************************************************************)
SubmitOrder ==
    SubmitOf(OrderForms \cup {form \in Forms : form.email \in {E_al, E_bo}})
NextSubmitOrder == SubmitOrder \/ WorkerPromote
SpecSubmitOrder == Init /\ [][NextSubmitOrder]_vars

\* the message of the first validator that rejects the form, the validators
\* taken in the order name, email, product, date, description
FirstValidationError(form, clock) ==
    LET f == Sanitised(form)
        nameV == validate_name(f.name)
        emailV == validate_email(f.email)
        productV == validate_product(f.product)
        dateV == validate_purchase_date(f.purchase_date, clock)
        descV == validate_issue_description(f.description, productV.product)
    IN IF ~ nameV.ok THEN <<nameV.err>>
       ELSE IF ~ emailV.ok THEN <<emailV.err>>
       ELSE IF ~ productV.ok THEN <<productV.note>>
       ELSE IF ~ dateV.ok THEN <<dateV.err>>
       ELSE IF ~ descV.ok THEN <<descV.err>>
       ELSE <<>>

\* C27: Submit validates name, email, product, date and description in that
\* order and answers with the first error; only a valid form reaches the
\* duplicate check, only a form that is no duplicate is given an id and
\* appended to pending; a Submit that ends in an error or in the duplicate
\* outcome leaves pending, active, resolved and the audit log unchanged and
\* consumes no id
C27_SubmitStages ==
    /\ [](resp.op = "submit_ticket" =>
            LET e == FirstValidationError(resp.req, Clock(now))
            IN IF e # <<>>
                 THEN resp.out.outcome = "error" /\ resp.out.error = e[1]
               ELSE resp.out.outcome \in {"duplicate", "created"})
    /\ [][resp'.op = "submit_ticket" =>
            IF resp'.out.outcome \in {"error", "duplicate"}
              THEN /\ UNCHANGED <<pending, active, resolved, audit, allocated>>
                   /\ resp'.out.outcome = "duplicate" =>
                        RowsOfTicket(active, ParseInt(resp'.out.new_id[1])) # <<>>
            ELSE /\ pending'.rows =
                      Append(pending.rows,
                             <<Str(get_next_ticket_id(active, pending, resolved))>>
                             \o Tail(pending'.rows[Len(pending'.rows)]))
                 /\ allocated' =
                      Append(allocated, get_next_ticket_id(active, pending, resolved))
                 /\ UNCHANGED <<active, resolved, audit>>]_vars

\* a form with a bad name that repeats the complaint of the active ticket
\* 1001 has been answered with the name error, and no id was consumed
C27_Witness ==
    /\ resp.op = "submit_ticket"
    /\ resp.req.name = <<"1">> /\ resp.req.email = E_al
    /\ resp.out.outcome = "error"
    /\ resp.out.error = "Name too short (minimum 2 characters)"
    /\ 1001 \in ActiveIds
    /\ allocated = <<1001>>

(***************************************************************************)
(* Priority updates whose rewrite of the active file fails (SpecWriteFail). *)
(***************************************************************************)
\* lines 1086-1101 when the rewrite raises: either open(..., 'w') raises and
\* the file is as it was, or the file has been truncated and the first
\* `written` rows are in it when the write raises; the except clause answers
\* with the error, the log call is not reached
update_priority_write_fails(s, ticket_id, priority, opened, written) ==
    \E r \in {ReadActiveForUpdate(active, ticket_id, priority)} :
        /\ sessions[s].is_admin
        /\ \E i \in 1..Len(valid_priorities) : valid_priorities[i] = priority
        /\ ~ r.raised /\ r.found
        /\ written \in 0..Len(r.rows)
        /\ active' = IF opened THEN FileOf(SubSeq(r.rows, 1, written)) ELSE active
        /\ resp' = PriorityResp(s, ticket_id, priority, "exception", FALSE)
        /\ UNCHANGED audit
UpdatePriorityWriteFails ==
    \E id \in AdminIds, opened \in BOOLEAN, written \in 0..(MaxTickets + 1) :
        /\ update_priority_write_fails("s1", id, T_High, opened, written)
        /\ UNCHANGED <<pending, resolved, commands, sessions, now, allocated,
                       inflight>>
NextWriteFail ==
    \/ SubmitOne \/ WorkerPromote \/ Login \/ UpdatePriority
    \/ UpdatePriorityWriteFails
SpecWriteFail == Init /\ [][NextWriteFail]_vars

\* C28: a priority update whose rewrite of Active fails answers with an
\* error, writes no audit entry and is not applied: Active holds exactly the
\* rows it held before the call
C28_FailedRewriteNotApplied ==
    [][(resp'.op = "update_priority" /\ resp'.out.outcome = "exception") =>
         /\ ~ resp'.out.success
         /\ audit' = audit
         /\ active' = active]_vars

(***************************************************************************)
(* Priority updates with every value of the route's <priority> segment     *)
(* (SpecPriorityValues).                                                   *)
(***************************************************************************)
\* the four priorities, and values that are none of them: another word and
\* a priority in small letters
PriorityInputs ==
    { T_Low, T_Medium, T_High, T_Critical,
      <<"U","r","g","e","n","t">>, <<"h","i","g","h">> }
UpdatePriorityValues ==
    UpdatePriorityOf({"s1"}, AdminIds, PriorityInputs, {TRUE}, MaxAudit)
NextPriorityValues ==
    SubmitOne \/ WorkerPromote \/ Login \/ UpdatePriorityValues
SpecPriorityValues == Init /\ [][NextPriorityValues]_vars

FourPriorities ==
    { <<"L","o","w">>, <<"M","e","d","i","u","m">>, <<"H","i","g","h">>,
      <<"C","r","i","t","i","c","a","l">> }

\* C29: a priority update of an admin whose value is not Low, Medium, High
\* or Critical is answered with the invalid-priority error and leaves Active
\* and the audit log unchanged; every priority a priority update puts into
\* a row of Active is one of the four
C29_OnlyValidPriorities ==
    [][(resp'.op = "update_priority" /\ sessions[resp'.req.session].is_admin) =>
         /\ resp'.req.priority \notin FourPriorities =>
              /\ resp'.out.outcome = "Invalid priority"
              /\ ~ resp'.out.success
              /\ active' = active
              /\ audit' = audit
         /\ \A i \in 2..Len(active'.rows) :
              (/\ i <= Len(active.rows)
               /\ Len(active'.rows[i]) >= 7
               /\ active'.rows[i] # active.rows[i])
                => active'.rows[i][7] \in FourPriorities]_vars

\* the priority 'Urgent' has been refused for a ticket that is in Active
C29_Witness ==
    /\ resp.op = "update_priority"
    /\ resp.req.priority = <<"U","r","g","e","n","t">>
    /\ resp.out.outcome = "Invalid priority"
    /\ sessions[resp.req.session].is_admin
    /\ resp.req.ticket_id \in ActiveIds

(***************************************************************************)
(* The handlers over an active file that holds malformed rows              *)
(* (SpecMalformed): the file is written by the worker and can be edited by *)
(* hand, so rows of any length can be in it.                               *)
(***************************************************************************)
R_good ==
    <<Str(1001), <<"B","o">>, E_bo, <<"s","s","d">>,
      <<"2","0","2","4","-","1","2","-","3","1">>, D_so_slow, T_NA, Str(0)>>
R_seven == SubSeq([R_good EXCEPT ![1] = Str(1002), ![3] = E_al], 1, 7)
R_six == SubSeq([R_good EXCEPT ![1] = Str(1003)], 1, 6)
R_three == SubSeq([R_good EXCEPT ![1] = Str(1004)], 1, 3)
R_text == << <<"a","b","c">>, <<"x">> >>
MalformedStores ==
    { FileOf(<<ActiveHeader, R_good, R_text, <<>>, R_three>>),
      FileOf(<<ActiveHeader, R_six, R_good>>),
      FileOf(<<ActiveHeader, R_text, R_seven>>),
      FileOf(<<ActiveHeader, R_good>>) }
MalformedIds == 1001..1004
InitMalformed ==
    /\ pending = NoFile
    /\ active \in MalformedStores
    /\ resolved = FileOf(<<ResolvedHeader>>)
    /\ audit = FileOf(<<AuditHeader>>)
    /\ commands = [exists |-> FALSE, text |-> <<>>]
    /\ sessions = [s \in SessionIds |-> EmptySession]
    /\ now = 0
    /\ resp = [op |-> "init", req |-> <<>>, out |-> <<>>]
    /\ allocated = <<>>
    /\ inflight = [t \in Threads |-> Idle]
CheckStatusMalformed == CheckStatusOf(MalformedIds, StatusEmails)
UpdatePriorityMalformed ==
    UpdatePriorityOf({"s1"}, MalformedIds, {T_High}, {TRUE}, MaxAudit + 1)
NextMalformed ==
    SubmitOne \/ Login \/ CheckStatusMalformed \/ UpdatePriorityMalformed
SpecMalformed == InitMalformed /\ [][NextMalformed]_vars

\* the ids that are integers among the first fields of the rows of a file
IntegerIds(rows) ==
    {ParseInt(rows[i][1]) : i \in {k \in 1..Len(rows) :
        Len(rows[k]) > 0 /\ rows[k][1] # <<>> /\ AllIn(rows[k][1], DigitChars)}}
\* the rows of a file with the id and at least n fields
RowsAtLeast(file, id_text, n) ==
    {i \in 1..Len(DataRows(file)) :
        /\ Len(DataRows(file)[i]) >= n
        /\ DataRows(file)[i][1] = id_text}

\* C30: malformed rows abort no operation: the next id is computed from the
\* rows whose first field is an integer, duplicate detection and status
\* lookup answer from rows of at least 6 fields only, and a priority update
\* for an id that has a row in Active completes and keeps every other row
\* as it is, also when the row of the id has fewer than 7 fields
C30_MalformedRowsTolerated ==
    [][/\ (resp'.op = "submit_ticket" /\ resp'.out.outcome = "created") =>
            ParseInt(resp'.out.new_id[1]) =
                1 + SetMax({1000} \cup IntegerIds(DataRows(active))
                                  \cup IntegerIds(pending.rows)
                                  \cup IntegerIds(DataRows(resolved)))
       /\ (resp'.op = "submit_ticket" /\ resp'.out.outcome = "duplicate") =>
            RowsAtLeast(active, resp'.out.new_id[1], 6) # {}
       /\ (resp'.op = "check_status" /\ resp'.out.status # None) =>
            \/ RowsAtLeast(active, resp'.req.ticket_id, 6) # {}
            \/ RowsAtLeast(resolved, resp'.req.ticket_id, 6) # {}
       /\ (/\ resp'.op = "update_priority"
           /\ sessions[resp'.req.session].is_admin
           /\ RowsAtLeast(active, Str(resp'.req.ticket_id), 1) # {}) =>
            /\ resp'.out.outcome = "updated"
            /\ Len(active'.rows) = Len(active.rows)
            /\ \A i \in 1..Len(active.rows) :
                 (i - 1) \notin RowsAtLeast(active, Str(resp'.req.ticket_id), 1)
                    => active'.rows[i] = active.rows[i]]_vars

\* SpecValidate: every validator input, at midnight and during the day
ValidatorInputs ==
    {ValidatorInput("product", p, <<>>) : p \in ProductInputs}
    \cup {ValidatorInput("date", d, <<>>) : d \in DateInputs}
    \cup {ValidatorInput("description", d, p) :
             d \in DescriptionInputs, p \in DescriptionProducts}
InitValidate ==
    /\ pending = NoFile
    /\ active = NoFile
    /\ resolved = FileOf(<<ResolvedHeader>>)
    /\ audit = FileOf(<<AuditHeader>>)
    /\ commands = [exists |-> FALSE, text |-> <<>>]
    /\ sessions = [s \in SessionIds |-> EmptySession]
    /\ now \in {0, MaxTime}
    /\ resp \in ValidatorInputs
    /\ allocated = <<>>
    /\ inflight = [t \in Threads |-> Idle]
NextValidate ==
    ApplyValidateProduct \/ ApplyValidatePurchaseDate \/ ApplyValidateIssueDescription
SpecValidate == InitValidate /\ [][NextValidate]_vars

(***************************************************************************)
(* get_next_ticket_id over the three files as it may find them             *)
(* (SpecNextId): missing, empty, with the header only, and with rows       *)
(* whose first field is or is not an integer.                              *)
(***************************************************************************)
\* a ticket row with the text given as its first field
IdRow(id_text) == [R_good EXCEPT ![1] = id_text]
NextIdPending ==
    { NoFile,
      FileOf(<<>>),
      FileOf(<<IdRow(Str(1005))>>),
      FileOf(<<IdRow(<<"a","b","c">>), IdRow(<<" ","1","0","0","7"," ">>)>>),
      FileOf(<<IdRow(Str(999)), <<>>, IdRow(<<>>)>>) }
NextIdActive ==
    { NoFile,
      FileOf(<<>>),
      FileOf(<<ActiveHeader>>),
      FileOf(<<ActiveHeader, IdRow(Str(1003)), IdRow(<<"1","0","x">>)>>),
      FileOf(<<ActiveHeader, IdRow(<<"+","1","0","0","9">>), <<>>>>) }
NextIdResolved ==
    { NoFile,
      FileOf(<<ResolvedHeader>>),
      FileOf(<<ResolvedHeader, IdRow(Str(1010)) \o <<Str(0), <<"a","d","m","i","n">>>>>>),
      FileOf(<<ResolvedHeader, IdRow(<<"-","5">>), IdRow(Str(1002))>>) }
InitNextId ==
    /\ pending \in NextIdPending
    /\ active \in NextIdActive
    /\ resolved \in NextIdResolved
    /\ audit = FileOf(<<AuditHeader>>)
    /\ commands = [exists |-> FALSE, text |-> <<>>]
    /\ sessions = [s \in SessionIds |-> EmptySession]
    /\ now = 0
    /\ resp = [op |-> "init", req |-> <<>>, out |-> <<>>]
    /\ allocated = <<>>
    /\ inflight = [t \in Threads |-> Idle]
\* lines 553-598: the function is called on the files as they are
ApplyGetNextTicketId ==
    /\ resp.op # "get_next_ticket_id"
    /\ resp' = [op |-> "get_next_ticket_id", req |-> <<>>,
                out |-> get_next_ticket_id(active, pending, resolved)]
    /\ UNCHANGED <<pending, active, resolved, audit, commands, sessions, now,
                   allocated, inflight>>
NextNextId == ApplyGetNextTicketId \/ SubmitOne
SpecNextId == InitNextId /\ [][NextNextId]_vars

\* the integers int() reads in the first field of the rows of a file, its
\* first row included
FirstFieldIntegers(file) ==
    {ParseInt(file.rows[i][1]) :
        i \in {k \in 1..Len(file.rows) :
                  Len(file.rows[k]) > 0 /\ IsInt(file.rows[k][1])}}
StoreIntegers(pendingF, activeF, resolvedF) ==
    FirstFieldIntegers(pendingF) \cup FirstFieldIntegers(activeF)
        \cup FirstFieldIntegers(resolvedF)
\* n is one more than the greatest of 1000 and the integers of the store
OneAboveStore(n, pendingF, activeF, resolvedF) ==
    /\ n > 1000
    /\ \A id \in StoreIntegers(pendingF, activeF, resolvedF) : id < n
    /\ n - 1 = 1000 \/ n - 1 \in StoreIntegers(pendingF, activeF, resolvedF)
\* no file of the store holds a row
StoreEmpty(pendingF, activeF, resolvedF) ==
    \A file \in {pendingF, activeF, resolvedF} : file.rows = <<>>

\* C31: get_next_ticket_id returns one more than the greatest of 1000 and
\* the integers found in the first field of the rows of pending, active and
\* resolved, hence 1001 when the three files are empty or missing; the id
\* Submit gives a new ticket is that number for the files it found
C31_NextIdIsMaxPlusOne ==
    /\ [](resp.op = "get_next_ticket_id" =>
            /\ OneAboveStore(resp.out, pending, active, resolved)
            /\ StoreEmpty(pending, active, resolved) => resp.out = 1001)
    /\ [][(resp'.op = "submit_ticket" /\ resp'.out.outcome = "created") =>
            OneAboveStore(ParseInt(resp'.out.new_id[1]), pending, active, resolved)]_vars

\* the greatest id stands in pending between spaces, beside a first field
\* that is no integer: the function has returned 1008
C31_Witness ==
    /\ resp.op = "get_next_ticket_id"
    /\ resp.out = 1008
    /\ pending.exists /\ Len(pending.rows) = 2
    /\ 1003 \in FirstFieldIntegers(active)

(***************************************************************************)
(* Submit over an active file that is missing, empty, with its header      *)
(* only, or with a ticket (SpecQueue).                                     *)
(***************************************************************************)
QueueStores ==
    { NoFile, FileOf(<<>>), FileOf(<<ActiveHeader>>), FileOf(<<ActiveHeader, R_good>>) }
InitQueue ==
    /\ pending = NoFile
    /\ active \in QueueStores
    /\ resolved = FileOf(<<ResolvedHeader>>)
    /\ audit = FileOf(<<AuditHeader>>)
    /\ commands = [exists |-> FALSE, text |-> <<>>]
    /\ sessions = [s \in SessionIds |-> EmptySession]
    /\ now = 0
    /\ resp = [op |-> "init", req |-> <<>>, out |-> <<>>]
    /\ allocated = <<>>
    /\ inflight = [t \in Threads |-> Idle]
NextQueue == SubmitStore \/ WorkerPromote
SpecQueue == InitQueue /\ [][NextQueue]_vars

\* the number of ticket rows of a file: its rows, the header aside
TicketRowCount(rows) == Cardinality({i \in 1..Len(rows) : rows[i] # ActiveHeader})

\* C32: the queue size Submit reports for the ticket it has stored is the
\* number of ticket rows in active plus the number of ticket rows in
\* pending, the new ticket among them, whatever the store, an active file
\* that is missing or empty included
C32_QueueEstimateCountsTickets ==
    Stored =>
        resp.out.queue_size = TicketRowCount(active.rows) + TicketRowCount(pending.rows)

(***************************************************************************)
(* The queue position a status lookup reports (SpecLookup).                *)
(***************************************************************************)
\* the tickets of the active file in file order: the first fields of its
\* rows, the header aside
ActiveOrder(file) ==
    [i \in 1..Len(DataRows(file)) |-> DataRows(file)[i][1]]
\* the rows of the order that stand before the ticket
RowsAhead(order, id_text) ==
    {i \in 1..Len(order) : \E k \in (i + 1)..Len(order) : order[k] = id_text}
\* the step takes tickets out of the active file and leaves the others in
\* their order
TicketsRemoved ==
    /\ active.exists /\ active'.exists
    /\ Len(active'.rows) < Len(active.rows)
    /\ \E kept \in SUBSET (1..Len(ActiveOrder(active))) :
           ActiveOrder(active') =
               SelectSeq(ActiveOrder(active),
                         LAMBDA id : \E i \in kept : ActiveOrder(active)[i] = id)

\* C33: the queue position reported for a ticket found in active is one
\* more than the number of rows before its row in the file, so 1 for the
\* first ticket; and when tickets are taken out of the file the position of
\* every ticket that stays does not grow
C33_QueuePosition ==
    /\ [][(resp'.op = "check_status" /\ resp'.out.status = Some(T_Open)) =>
            /\ resp'.out.queue_position =
                   Some(1 + Cardinality(RowsAhead(ActiveOrder(active), resp'.req.ticket_id)))
            /\ (ActiveOrder(active)[1] = resp'.req.ticket_id
                   => resp'.out.queue_position = Some(1))]_vars
    /\ [][TicketsRemoved =>
            \A i \in 1..Len(ActiveOrder(active')) :
                queue_position(active', ActiveOrder(active')[i])
                    <= queue_position(active, ActiveOrder(active')[i])]_vars

\* ticket 1002 is reported at position 1 once ticket 1001, which stood
\* before it, has been resolved
C33_Witness ==
    /\ resp.op = "check_status"
    /\ resp.req.ticket_id = Str(1002)
    /\ resp.out.status = Some(T_Open)
    /\ resp.out.queue_position = Some(1)
    /\ 1001 \in StoreIds(resolved)

(***************************************************************************)
(* The validators called again on the same input while the clock runs      *)
(* (SpecRepeat): the state keeps the input and the outcome of the last     *)
(* call.                                                                   *)
(***************************************************************************)
\* dates around the day ten years and five days before the start, a date of
\* the day of the start and of the next day, and texts that are no date
RepeatDates ==
    {DateText(formats_to_try[1], y, 11, d) : y \in {2016, 2024, 2026}, d \in {2, 3, 4, 5}}
    \cup { <<"3","1","-","1","2","-","2","0","2","4">>, <<"t","o","d","a","y">>, <<>> }
RepeatInputs ==
    {ValidatorInput("product", p, <<>>) : p \in ProductInputs}
    \cup {ValidatorInput("date", d, <<>>) : d \in RepeatDates}
    \cup {ValidatorInput("description", d, p) :
             d \in DescriptionInputs, p \in DescriptionProducts}
InitRepeat ==
    /\ pending = NoFile
    /\ active \in {NoFile, FileOf(<<ActiveHeader, R_good>>)}
    /\ resolved = FileOf(<<ResolvedHeader>>)
    /\ audit = FileOf(<<AuditHeader>>)
    /\ commands = [exists |-> FALSE, text |-> <<>>]
    /\ sessions = [s \in SessionIds |-> EmptySession]
    /\ now = 0
    /\ resp \in RepeatInputs
    /\ allocated = <<>>
    /\ inflight = [t \in Threads |-> Idle]
\* the validator is called on the input of the state, for the first time or
\* again
CallValidateProduct ==
    /\ resp.req.kind = "product"
    /\ resp' = [op |-> "validate_product", req |-> resp.req,
                out |-> validate_product(resp.req.text)]
    /\ UNCHANGED <<pending, active, resolved, audit, commands, sessions, now,
                   allocated, inflight>>
CallValidatePurchaseDate ==
    /\ resp.req.kind = "date"
    /\ resp' = [op |-> "validate_purchase_date", req |-> resp.req,
                out |-> validate_purchase_date(resp.req.text, Clock(now))]
    /\ UNCHANGED <<pending, active, resolved, audit, commands, sessions, now,
                   allocated, inflight>>
CallValidateIssueDescription ==
    /\ resp.req.kind = "description"
    /\ resp' = [op |-> "validate_issue_description", req |-> resp.req,
                out |-> validate_issue_description(resp.req.text, resp.req.product)]
    /\ UNCHANGED <<pending, active, resolved, audit, commands, sessions, now,
                   allocated, inflight>>
\* the clock runs between two calls
TimePasses ==
    \E d \in TickSteps :
        /\ now + d <= MaxTime
        /\ now' = now + d
        /\ UNCHANGED <<pending, active, resolved, audit, commands, sessions, resp,
                       allocated, inflight>>
NextRepeat ==
    \/ CallValidateProduct \/ CallValidatePurchaseDate
    \/ CallValidateIssueDescription \/ TimePasses
SpecRepeat == InitRepeat /\ [][NextRepeat]_vars

ValidatorNames ==
    {"validate_product", "validate_purchase_date", "validate_issue_description"}

\* C34: a call of a validator leaves the files, the log, the command channel
\* and the sessions as they are, and a validator called again on the input
\* of its last call returns the outcome of that call, whatever the time
\* between the two calls
C34_ValidatorsDeterministic ==
    [][/\ resp'.op \in ValidatorNames =>
            UNCHANGED <<pending, active, resolved, audit, commands, sessions>>
       /\ (resp.op \in ValidatorNames /\ resp'.op = resp.op /\ resp'.req = resp.req) =>
            resp'.out = resp.out]_vars
====
